---- MODULE Spec2Model ----
(***************************************************************************)
(* Goal-directed task execution engine of JARVIX: BrowserAgent.execute,    *)
(* execute_goal and execute_continuation (agents/browser_agent.py) driving *)
(* the AgentState / BrowserContext singletons (core/state_manager.py)      *)
(* through ActionExecutor.execute (core/action_executor.py).               *)
(*                                                                         *)
(* A call of execute_goal is a sequence of steps of one thread; the        *)
(* position of the thread is pc[p].  The state of the StateManager         *)
(* singleton is shared by all threads.                                     *)
(***************************************************************************)
EXTENDS Integers, Sequences, FiniteSets, TLC

\* ------------------------------------------------------------------ bounds

\* Longest plan executed against a driver whose every attempt may fail.
MaxPlanLen == 3

\* Longest plan executed against a driver that is offline.
LongPlanLen == 50

\* Longest plan after which the session goes on with further operations.
ShortPlanLen == 1

\* Number of clock advances between two updates of the BrowserContext.
MaxTicks == 2

\* Plan steps a session of successive executions runs in all.
MaxSessionSteps == 2

\* execute() calls archived in the history of a session of overlapping calls.
MaxOverlapRuns == 1

\* Longest plan whose steps return data of every kind.
DataPlanLen == 2

\* --------------------------------------------------------------- constants

\* BrowserAgent.max_retries
max_retries == 3

\* BrowserContext.CONTEXT_TIMEOUT_SECONDS
CONTEXT_TIMEOUT_SECONDS == 300

\* StateManager.new_execution keeps the last 10 summaries.
HistoryLimit == 10

\* Threads that may run execute_goal.  Spec runs thread 1 only.
Procs == {1, 2}

\* StepStatus
PENDING == "pending"
RUNNING == "running"
SUCCESS == "success"
FAILED == "failed"
RETRYING == "retrying"
SKIPPED == "skipped"

\* Action names the planner puts into the plans executed here.
PlanActions == {"navigate", "click"}

\* Goals submitted to execute_goal.
Goals == {"g1", "g2"}

\* Error texts of a failed ActionResult.
ErrorTexts == {"timeout"}

\* The page the live browser session shows after a successful navigation.
SiteUrl == "https://site"

\* The shopping sites of the compare plans that are executed: the domain as
\* the planner holds it, and the texts it stands for in the URL the plan
\* navigates to, in the context's domain and in the keys of the extract steps.
SiteTexts ==
    {[domain |-> <<"amazon", ".in">>, url |-> "https://www.amazon.in",
      netloc |-> "amazon.in", price |-> "amazon_price",
      product_name |-> "amazon_product_name", rating |-> "amazon_rating"],
     [domain |-> <<"amazon", ".com">>, url |-> "https://www.amazon.com",
      netloc |-> "amazon.com", price |-> "amazon_price",
      product_name |-> "amazon_product_name", rating |-> "amazon_rating"],
     [domain |-> <<"flipkart", ".com">>, url |-> "https://www.flipkart.com",
      netloc |-> "flipkart.com", price |-> "flipkart_price",
      product_name |-> "flipkart_product_name", rating |-> "flipkart_rating"],
     [domain |-> <<"ebay", ".com">>, url |-> "https://www.ebay.com",
      netloc |-> "ebay.com", price |-> "ebay_price",
      product_name |-> "ebay_product_name", rating |-> "ebay_rating"],
     [domain |-> <<"shop", ".com">>, url |-> "https://www.shop.com",
      netloc |-> "shop.com", price |-> "shop_price",
      product_name |-> "shop_product_name", rating |-> "shop_rating"]}

\* Seconds by which the clock advances in one Tick.
TickSizes == {1, 299}

\* Python's None.
None == "None"

\* An empty key -> value map (a Python dict {}).
EmptyMap == [k \in {} |-> ""]

\* dict.update: the keys of d2 overwrite those of d1.
Merge(d1, d2) ==
    [k \in (DOMAIN d1) \cup (DOMAIN d2) |-> IF k \in DOMAIN d2 THEN d2[k] ELSE d1[k]]

\* str.lower() of a part.
LowerPart(part) ==
    CASE part = "Amazon" -> "amazon"
      [] part = "Open" -> "open"
      [] part = "Target" -> "target"
      [] part = "Context" -> "context"
      [] OTHER -> part

\* text.lower()
Lower(t) == [i \in 1..Len(t) |-> LowerPart(t[i])]

\* text.startswith(sub)
StartsWith(t, sub) == Len(sub) <= Len(t) /\ SubSeq(t, 1, Len(sub)) = sub

\* The positions at which sub occurs in text.
Occurrences(t, sub) ==
    {i \in 1..(Len(t) - Len(sub) + 1) : SubSeq(t, i, i + Len(sub) - 1) = sub}

\* sub in text
Contains(t, sub) == Occurrences(t, sub) # {}

\* ------------------------------------------------------------------- state

VARIABLES
    state,        \* the AgentState singleton (state_manager.state)
    ctx,          \* the BrowserContext singleton (state_manager.browser_context)
    elapsed,      \* datetime.now() - ctx.last_action_time, in seconds
    page_url,     \* the live browser session: the URL of its page ("" = none)
    pc,           \* position of each thread inside execute_goal
    plan,         \* plan.steps of each thread's execute() call
    idx,          \* loop variable i of execute() / index of _execute_step_with_retry
    attempt,      \* loop variable attempt of _execute_step_with_retry
    result,       \* the AgentResult execute() returned to each thread
    cont_result,  \* the AgentResult execute_continuation has just returned
    calls,        \* per thread: ActionExecutor.execute invocations per plan step
    finishes,     \* per thread: AgentState.finish invocations of the current call
    cont_calls,   \* actions that continuation passed to ActionExecutor.execute
    goal_arg,     \* the goal argument of each thread's execute_goal call
    driver,       \* how the browser driver behaves in this session
    ticks,        \* clock advances since the BrowserContext was updated
    history,      \* StateManager.history: summaries of the previous executions
    goal_text,    \* the goal last handed to GoalPlanner.plan
    action_plan,  \* the ActionPlan that call returned
    llm,          \* the LLM collaborator at that call: the flag and its reply
    router,       \* the CommandRouter and the last call of route or match
    executed      \* the last direct call of ActionExecutor.execute and its result

vars == <<state, ctx, elapsed, page_url, pc, plan, idx, attempt, result, cont_result,
          calls, finishes, cont_calls, goal_arg, driver, ticks, history, goal_text,
          action_plan, llm, router, executed>>

\* ------------------------------------------------------------ AgentState

StepRecord(i, action, params) ==
    [step_index |-> i, action |-> action, params |-> params, status |-> PENDING,
     error |-> "", result_data |-> EmptyMap, screenshot |-> "", retry_count |-> 0]

\* AgentState() as the dataclass constructs it.
AgentState ==
    [goal |-> "", total_steps |-> 0, current_step |-> 0, status |-> "idle",
     current_url |-> "", last_screenshot |-> "", steps |-> <<>>,
     extracted_data |-> EmptyMap, screenshots |-> <<>>, errors |-> <<>>,
     total_retries |-> 0]

\* reset that forgets to zero the session's retry counter.
reset_KeepsRetries(s, g) ==
    [s EXCEPT !.goal = g, !.total_steps = 0, !.current_step = 0,
              !.status = "planning", !.current_url = "", !.last_screenshot = "",
              !.steps = <<>>, !.extracted_data = EmptyMap, !.screenshots = <<>>,
              !.errors = <<>>]

\* reset that leaves the error list of the previous execution in place.
reset_KeepsErrors(s, g) ==
    [s EXCEPT !.goal = g, !.total_steps = 0, !.current_step = 0,
              !.status = "planning", !.current_url = "", !.last_screenshot = "",
              !.steps = <<>>, !.extracted_data = EmptyMap, !.screenshots = <<>>,
              !.total_retries = 0]

\* reset that leaves the step records of the previous execution in place.
reset_KeepsSteps(s, g) ==
    [s EXCEPT !.goal = g, !.total_steps = 0, !.current_step = 0,
              !.status = "planning", !.current_url = "", !.last_screenshot = "",
              !.extracted_data = EmptyMap, !.screenshots = <<>>,
              !.errors = <<>>, !.total_retries = 0]

reset(s, g) ==
    [s EXCEPT !.goal = g, !.total_steps = 0, !.current_step = 0,
              !.status = "planning", !.current_url = "", !.last_screenshot = "",
              !.steps = <<>>, !.extracted_data = EmptyMap, !.screenshots = <<>>,
              !.errors = <<>>, !.total_retries = 0]

\* steps are appended to self.steps, indexed from 0 by enumerate().
\* set_plan that numbers the records from one.
set_plan_OneBased(s, planSteps) ==
    [s EXCEPT !.total_steps = Len(planSteps),
              !.status = "executing",
              !.steps = s.steps \o [k \in 1..Len(planSteps) |->
                            StepRecord(k, planSteps[k].action, planSteps[k].params)]]

set_plan(s, planSteps) ==
    [s EXCEPT !.total_steps = Len(planSteps),
              !.status = "executing",
              !.steps = s.steps \o [k \in 1..Len(planSteps) |->
                            StepRecord(k - 1, planSteps[k].action, planSteps[k].params)]]

\* 0 <= index < len(self.steps)
InRange(s, index) == 0 <= index /\ index < Len(s.steps)

start_step(s, index) ==
    IF InRange(s, index)
    THEN [s EXCEPT !.steps[index + 1].status = RUNNING, !.current_step = index]
    ELSE s

\* Keys of a step's data that complete_step does not copy to extracted_data.
BookkeepingKeys == {"path", "waited_ms", "typed", "key"}

Restrict(d, keys) == [k \in keys |-> d[k]]

\* complete_step that assigns the step's data to extracted_data.
complete_step_Replaces(s, index, success, error, data, screenshot) ==
    IF InRange(s, index)
    THEN [s EXCEPT
            !.steps[index + 1].status = IF success THEN SUCCESS ELSE FAILED,
            !.steps[index + 1].error = error,
            !.steps[index + 1].result_data = data,
            !.steps[index + 1].screenshot = screenshot,
            !.extracted_data = Restrict(data, (DOMAIN data) \ BookkeepingKeys),
            !.screenshots = IF screenshot # "" THEN Append(@, screenshot) ELSE @,
            !.last_screenshot = IF screenshot # "" THEN screenshot ELSE @,
            !.errors = IF error # "" THEN Append(@, <<index, error>>) ELSE @]
    ELSE s

complete_step(s, index, success, error, data, screenshot) ==
    IF InRange(s, index)
    THEN [s EXCEPT
            !.steps[index + 1].status = IF success THEN SUCCESS ELSE FAILED,
            !.steps[index + 1].error = error,
            !.steps[index + 1].result_data = data,
            !.steps[index + 1].screenshot = screenshot,
            !.extracted_data = Merge(@, Restrict(data, (DOMAIN data) \ BookkeepingKeys)),
            !.screenshots = IF screenshot # "" THEN Append(@, screenshot) ELSE @,
            !.last_screenshot = IF screenshot # "" THEN screenshot ELSE @,
            !.errors = IF error # "" THEN Append(@, <<index, error>>) ELSE @]
    ELSE s

\* retry_step that counts every retry twice.
retry_step_CountsTwice(s, index) ==
    IF InRange(s, index)
    THEN [s EXCEPT !.steps[index + 1].status = RETRYING,
                   !.steps[index + 1].retry_count = @ + 2,
                   !.total_retries = @ + 2]
    ELSE s

retry_step(s, index) ==
    IF InRange(s, index)
    THEN [s EXCEPT !.steps[index + 1].status = RETRYING,
                   !.steps[index + 1].retry_count = @ + 1,
                   !.total_retries = @ + 1]
    ELSE s

\* skip_step that records the reason but leaves the status FAILED.
skip_step_ReasonOnly(s, index, reason) ==
    IF InRange(s, index)
    THEN [s EXCEPT !.steps[index + 1].error = reason]
    ELSE s

skip_step(s, index, reason) ==
    IF InRange(s, index)
    THEN [s EXCEPT !.steps[index + 1].status = SKIPPED,
                   !.steps[index + 1].error = reason]
    ELSE s

finish(s, success) ==
    [s EXCEPT !.status = IF success THEN "success" ELSE "failed"]

update_url(s, url) == [s EXCEPT !.current_url = url]

\* Number of step records whose status is in the given set.
CountStatus(s, statuses) ==
    Cardinality({k \in 1..Len(s.steps) : s.steps[k].status \in statuses})

\* The whole percentages n for which the double n/100 times 100 is just below
\* n, so that int() truncates it to n - 1 (IEEE-754 binary64, round to nearest).
TruncatedPercents == {29, 57, 58}

\* int((completed / total * 100)) in double precision.  When 100*completed/total
\* is not whole, the rounding error is far smaller than the distance to the next
\* integer and int() yields the integer part; when it is a whole number n, the
\* quotient is the double nearest to n/100 and the product is n or just below n.
Percent(completed, total) ==
    IF total > 0
    THEN LET n == (completed * 100) \div total
         IN  IF (completed * 100) % total = 0 /\ n \in TruncatedPercents
             THEN n - 1 ELSE n
    ELSE 0

\* A progress count that takes only SUCCESS steps as completed.
get_progress_SuccessOnly(s) ==
    LET completed == CountStatus(s, {SUCCESS})
        failed == CountStatus(s, {FAILED})
    IN  [current |-> s.current_step + 1,
         total |-> s.total_steps,
         completed |-> completed,
         failed |-> failed,
         percent |-> Percent(completed, s.total_steps)]

get_progress(s) ==
    LET completed == CountStatus(s, {SUCCESS, SKIPPED})
        failed == CountStatus(s, {FAILED})
    IN  [current |-> s.current_step + 1,
         total |-> s.total_steps,
         completed |-> completed,
         failed |-> failed,
         percent |-> Percent(completed, s.total_steps)]

\* seq[-n:]
LastN(seq, n) ==
    IF Len(seq) <= n THEN seq ELSE SubSeq(seq, Len(seq) - n + 1, Len(seq))

\* AgentState.get_summary; progress is kept as the pair the text is formatted
\* from, the duration text is left out (the model has no clock for a run).
get_summary(s) ==
    LET progress == get_progress(s)
    IN  [goal |-> s.goal,
         status |-> s.status,
         progress |-> <<progress.completed, progress.total>>,
         current_url |-> s.current_url,
         extracted_data |-> s.extracted_data,
         total_retries |-> s.total_retries,
         errors |-> LastN(s.errors, 3),
         last_screenshot |-> s.last_screenshot]

\* An archive that keeps the first HistoryLimit summaries instead of the last.
new_execution_KeepsOldest(h, s) ==
    IF s.goal # ""
    THEN SubSeq(Append(h, get_summary(s)), 1,
                IF Len(h) + 1 <= HistoryLimit THEN Len(h) + 1 ELSE HistoryLimit)
    ELSE h

\* StateManager.new_execution, the history part: the list after the call.
new_execution(h, s) ==
    IF s.goal # ""
    THEN LastN(Append(h, get_summary(s)), HistoryLimit)
    ELSE h

\* --------------------------------------------------------- BrowserContext

\* BrowserContext() as the dataclass constructs it; last_action_time is kept
\* as a flag (None / set) and its distance to the clock in the variable elapsed.
BrowserContext ==
    [is_open |-> FALSE, current_url |-> "", current_domain |-> "", last_goal |-> "",
     last_action |-> "", last_action_time |-> FALSE, last_screenshot |-> "",
     extracted_data |-> EmptyMap]

\* urlparse(url).netloc.replace("www.", "") on the URLs of this model.
DomainOf(url) ==
    IF url = SiteUrl THEN "site.com"
    ELSE IF \E t \in SiteTexts : t.url = url
         THEN (CHOOSE t \in SiteTexts : t.url = url).netloc
         ELSE ""

\* BrowserContext.update; the caller also sets elapsed to 0 (last_action_time = now).
\* An update that marks the session open only when it is given a URL.
update_OnlyWithUrl(c, url, g, action, screenshot, data) ==
    [c EXCEPT !.is_open = IF url # "" THEN TRUE ELSE @,
              !.last_action_time = TRUE,
              !.current_url = IF url # "" THEN url ELSE @,
              !.current_domain = IF url # "" THEN DomainOf(url) ELSE @,
              !.last_goal = IF g # "" THEN g ELSE @,
              !.last_action = IF action # "" THEN action ELSE @,
              !.last_screenshot = IF screenshot # "" THEN screenshot ELSE @,
              !.extracted_data = Merge(@, data)]

update(c, url, g, action, screenshot, data) ==
    [c EXCEPT !.is_open = TRUE,
              !.last_action_time = TRUE,
              !.current_url = IF url # "" THEN url ELSE @,
              !.current_domain = IF url # "" THEN DomainOf(url) ELSE @,
              !.last_goal = IF g # "" THEN g ELSE @,
              !.last_action = IF action # "" THEN action ELSE @,
              !.last_screenshot = IF screenshot # "" THEN screenshot ELSE @,
              !.extracted_data = Merge(@, data)]

\* is_active with the boundary second still counted as fresh.
is_active_Inclusive(c, seconds) ==
    IF ~c.is_open THEN FALSE
    ELSE IF ~c.last_action_time THEN FALSE
    ELSE seconds <= CONTEXT_TIMEOUT_SECONDS

\* is_active that looks at the freshness only.
is_active_IgnoresOpen(c, seconds) ==
    IF ~c.last_action_time THEN FALSE
    ELSE seconds < CONTEXT_TIMEOUT_SECONDS

is_active(c, seconds) ==
    IF ~c.is_open THEN FALSE
    ELSE IF ~c.last_action_time THEN FALSE
    ELSE seconds < CONTEXT_TIMEOUT_SECONDS

mark_closed(c) == [c EXCEPT !.is_open = FALSE]

\* --------------------------------------------------------- ActionExecutor

\* An ActionResult as a handler builds it: action and duration_ms keep the
\* defaults of the dataclass, "" and 0, until execute assigns them.
ActionResult(success, error, data, screenshot_path) ==
    [success |-> success, action |-> "", error |-> error, data |-> data,
     screenshot_path |-> screenshot_path, duration_ms |-> "0"]

Get(params, key, default) == IF key \in DOMAIN params THEN params[key] ELSE default

\* The file a screenshot is written to.
ShotPath == "shot.png"

\* The value an extract step reads from the page.
PageValue == "v"

\* The texts of the exceptions page.goto raises in this model: three that
\* tell of a lost session and one that does not.
GotoErrors ==
    {<<"Target", " ", "closed">>,
     <<"Target", " ", "page", " ", "crashed">>,
     <<"Execution", " ", "Context", " ", "destroyed">>,
     <<"Timeout", " ", "exceeded">>}

\* What a call of page.goto does: it returns or raises an exception of the
\* given text.
Returns == [raises |-> FALSE, text |-> <<>>]
Raises(text) == [raises |-> TRUE, text |-> text]
GotoOutcomes == {Returns} \cup {Raises(e) : e \in GotoErrors}

\* What stop_browser(), start_browser() do: both return, or one of them raises.
RestartOutcomes == {"restarted", "stop_raises", "start_raises"}

\* "closed" in error_str or "target page" in error_str or "context" in error_str
SessionLost(e) ==
    LET error_str == Lower(e)
    IN  \/ Contains(error_str, <<"closed">>)
        \/ Contains(error_str, <<"target", " ", "page">>)
        \/ Contains(error_str, <<"context">>)

\* What a run of the navigate handler did: the ActionResult it returned, the
\* number of page.goto calls and of restarts it made, and whether an
\* exception left it.
Navigation(r, gotos, restarts) ==
    [result |-> r, gotos |-> gotos, restarts |-> restarts, raised |-> FALSE]

\* The navigate handler that starts the session again after any failure.
_navigate_run_AlwaysRestarts(params, first, restart, second) ==
    IF Get(params, "url", "") = ""
    THEN Navigation(ActionResult(FALSE, "No URL provided", EmptyMap, ""), 0, 0)
    ELSE IF ~first.raises
    THEN Navigation(ActionResult(TRUE, "", [k \in {"url"} |-> Get(params, "url", "")], ""),
                    1, 0)
    ELSE IF restart # "restarted"
    THEN Navigation(ActionResult(FALSE, "Browser restart failed", EmptyMap, ""), 1, 1)
    ELSE IF second.raises
    THEN Navigation(ActionResult(FALSE, "Browser restart failed", EmptyMap, ""), 2, 1)
    ELSE Navigation(ActionResult(TRUE, "", [k \in {"url"} |-> Get(params, "url", "")], ""),
                    2, 1)

\* ActionExecutor._navigate, for what the first page.goto, the restart and
\* the second page.goto do.  The texts after "Navigation failed: " and
\* "Browser restart failed: " are left out of the error.
_navigate_run(params, first, restart, second) ==
    IF Get(params, "url", "") = ""
    THEN Navigation(ActionResult(FALSE, "No URL provided", EmptyMap, ""), 0, 0)
    ELSE IF ~first.raises
    THEN Navigation(ActionResult(TRUE, "", [k \in {"url"} |-> Get(params, "url", "")], ""),
                    1, 0)
    ELSE IF ~SessionLost(first.text)
    THEN Navigation(ActionResult(FALSE, "Navigation failed", EmptyMap, ""), 1, 0)
    ELSE IF restart # "restarted"
    THEN Navigation(ActionResult(FALSE, "Browser restart failed", EmptyMap, ""), 1, 1)
    ELSE IF second.raises
    THEN Navigation(ActionResult(FALSE, "Browser restart failed", EmptyMap, ""), 2, 1)
    ELSE Navigation(ActionResult(TRUE, "", [k \in {"url"} |-> Get(params, "url", "")], ""),
                    2, 1)

\* The results a handler can return, over the ways the driver can behave.
_navigate(params) ==
    {_navigate_run(params, first, restart, second).result :
        first \in GotoOutcomes, restart \in RestartOutcomes, second \in GotoOutcomes}

_click(params) ==
    {ActionResult(TRUE, "", EmptyMap, ""),
     ActionResult(FALSE, "Click failed", EmptyMap, "")}

_type(params) ==
    IF Get(params, "text", "") = ""
    THEN {ActionResult(FALSE, "No text to type", EmptyMap, "")}
    ELSE {ActionResult(TRUE, "", [k \in {"typed"} |-> Get(params, "text", "")], ""),
          ActionResult(FALSE, "Type failed", EmptyMap, "")}

_press_key(params) ==
    {ActionResult(TRUE, "", [k \in {"key"} |-> Get(params, "key", "Enter")], ""),
     ActionResult(FALSE, "Key press failed", EmptyMap, "")}

_scroll(params) ==
    {ActionResult(TRUE, "", EmptyMap, ""),
     ActionResult(FALSE, "Scroll failed", EmptyMap, "")}

_wait_for(params) ==
    {ActionResult(TRUE, "", EmptyMap, ""),
     ActionResult(FALSE, "Wait timed out", EmptyMap, "")}

_wait(params) ==
    {ActionResult(TRUE, "", [k \in {"waited_ms"} |-> Get(params, "ms", "1000")], "")}

_extract(params) ==
    {ActionResult(TRUE, "",
                  [k \in {Get(params, "save_as", "extracted"), "raw_value"} |-> PageValue],
                  ""),
     ActionResult(FALSE, "Extract failed", EmptyMap, "")}

_screenshot(params) ==
    {ActionResult(TRUE, "", [k \in {"path"} |-> ShotPath], ShotPath),
     ActionResult(FALSE, "Screenshot failed", EmptyMap, "")}

_read_dom(params) ==
    {ActionResult(TRUE, "", [k \in {"content"} |-> PageValue], ""),
     ActionResult(FALSE, "Read DOM failed", EmptyMap, "")}

\* Action names ActionExecutor.execute dispatches to a handler.
Handled ==
    {"navigate", "click", "type", "press_key", "scroll", "wait_for", "wait",
     "extract", "screenshot", "read_dom"}

\* f"Unknown action: {action}" for the names without a handler that reach
\* execute in this model.
UnknownAction(action) ==
    CASE action = "back" -> "Unknown action: back"
      [] action = "refresh" -> "Unknown action: refresh"
      [] action = "hover" -> "Unknown action: hover"
      [] OTHER -> "Unknown action: unknown"

UnknownActionErrors == {UnknownAction(a) : a \in {"back", "refresh", "hover", "unknown"}}

\* The handler execute dispatches (action, params) to, None when the name
\* has none.
HandlerOf(action) == IF action \in Handled THEN action ELSE None

\* The try block of execute: what the handler returns, or the result execute
\* began with, its error set, when the name has no handler.
Dispatch(action, params) ==
    CASE action = "navigate" -> _navigate(params)
      [] action = "click" -> _click(params)
      [] action = "type" -> _type(params)
      [] action = "press_key" -> _press_key(params)
      [] action = "scroll" -> _scroll(params)
      [] action = "wait_for" -> _wait_for(params)
      [] action = "wait" -> _wait(params)
      [] action = "extract" -> _extract(params)
      [] action = "screenshot" -> _screenshot(params)
      [] action = "read_dom" -> _read_dom(params)
      [] OTHER -> {ActionResult(FALSE, UnknownAction(action), EmptyMap, "")}

\* (time.time() - start_time) * 1000
Elapsed == "elapsed"

\* execute that returns what the handler built, the action name not assigned.
execute_KeepsAction(action, params) ==
    {[r EXCEPT !.duration_ms = Elapsed] : r \in Dispatch(action, params)}

\* ActionExecutor.execute: the ActionResults it can return for (action, params).
execute(action, params) ==
    {[r EXCEPT !.duration_ms = Elapsed, !.action = action] : r \in Dispatch(action, params)}

\* No call of execute yet, and a call next to what it returned.
NoExecute ==
    [action |-> None, params |-> EmptyMap, handler |-> None, raised |-> FALSE,
     result |-> ActionResult(FALSE, "", EmptyMap, "")]

\* The results the driver of this session lets execute(action, params) return:
\* a flaky driver may fail or succeed at every attempt; an offline one fails
\* every navigation and serves the interactions with the page already loaded.
\* An action without a handler never reaches the driver.  An online driver
\* serves every action.
DriverResults(d, action, params) ==
    IF d = "flaky" \/ action \notin Handled THEN execute(action, params)
    ELSE IF d = "online" THEN {r \in execute(action, params) : r.success}
    ELSE {r \in execute(action, params) : r.success = (action # "navigate")}

\* The page URL of the session after execute(action, params) returned r.
PageAfter(url, action, r) ==
    IF action = "navigate" /\ r.success THEN r.data["url"] ELSE url

\* ActionExecutor.get_current_url
get_current_url(url) == url

\* ----------------------------------------------------------- BrowserAgent

AgentResult(success, g, message, data, shots, completed, total, errs, url) ==
    [success |-> success, goal |-> g, message |-> message, extracted_data |-> data,
     screenshots |-> shots, steps_completed |-> completed, steps_total |-> total,
     errors |-> errs, final_url |-> url]

\* AgentResult() with the dataclass defaults.
NoResult == AgentResult(FALSE, "", "", EmptyMap, <<>>, 0, 0, <<>>, "")

\* No action is critical.
_is_critical_step_Never(action) == action \in {}

\* A criticality test that takes click for critical too.
_is_critical_step_ClickToo(action) == action \in {"navigate", "click"}

_is_critical_step(action) == action \in {"navigate"}

_get_result_message(s) ==
    IF s.status = "success" THEN "Goal completed" ELSE "Goal partially completed"

\* The threshold taken strictly: completed > total * 0.8.
MeetsThreshold_Strict(completed, total) == 5 * completed > 4 * total

\* completed >= total * 0.8 in double precision: total * 0.8 is at most one
\* rounding away from 4*total/5, and equals it whenever that is a whole number.
MeetsThreshold(completed, total) == 5 * completed >= 4 * total

\* The steps a plan is made of in this model: one critical and one
\* non-critical action.
Click == [action |-> "click", params |-> [k \in {"selector"} |-> "a.link"]]
Navigate == [action |-> "navigate", params |-> [k \in {"url"} |-> SiteUrl]]

StepKinds == {Navigate, Click}

\* The plans GoalPlanner.plan returns (never empty).
Plans == UNION {[1..n -> StepKinds] : n \in 1..MaxPlanLen}

\* The plans executed against an offline driver: interactions with the page
\* that is open, followed or not by a navigation.
LongPlans ==
    {[k \in 1..n |-> IF k < n THEN Click ELSE Navigate] : n \in 1..LongPlanLen}
    \cup {[k \in 1..n |-> Click] : n \in 1..LongPlanLen}

\* The plans the planner hands to execute() in a session with driver d.
PlansFor(d) == IF d = "flaky" THEN Plans ELSE LongPlans

\* The session goes on after an execution only when its plan was short.
Short == state.total_steps <= ShortPlanLen

\* Plan steps of the executions archived in the history.
RECURSIVE ArchivedSteps(_)
ArchivedSteps(h) ==
    IF h = <<>> THEN 0 ELSE Head(h).progress[2] + ArchivedSteps(Tail(h))

\* Plan steps the session has run so far, the live execution included.
SessionSteps == ArchivedSteps(history) + state.total_steps

\* Where execute() continues after the step at index i: the next step of the
\* for loop, or the finalisation when the loop is exhausted.
AfterStep(p, i) ==
    IF i + 1 < Len(plan[p])
    THEN /\ idx' = [idx EXCEPT ![p] = i + 1]
         /\ attempt' = [attempt EXCEPT ![p] = 0]
         /\ pc' = [pc EXCEPT ![p] = "start"]
    ELSE /\ pc' = [pc EXCEPT ![p] = "finalize"]
         /\ UNCHANGED <<idx, attempt>>

\* execute_goal -> execute: state_manager.new_execution(goal).
NewExecution(p, g) ==
    /\ pc[p] = "idle"
    /\ history' = new_execution(history, state)
    /\ state' = reset(state, g)
    /\ goal_arg' = [goal_arg EXCEPT ![p] = g]
    /\ pc' = [pc EXCEPT ![p] = "planning"]
    /\ cont_result' = NoResult
    /\ cont_calls' = <<>>
    /\ UNCHANGED <<ctx, elapsed, page_url, plan, idx, attempt, result, calls, finishes,
                   driver, ticks, goal_text,
                   action_plan, llm, router, executed>>

\* execute: plan = self.planner.plan(goal); state.set_plan(...).
PlanGoal(p, pl) ==
    /\ pc[p] = "planning"
    /\ plan' = [plan EXCEPT ![p] = pl]
    /\ state' = set_plan(state, pl)
    /\ calls' = [calls EXCEPT ![p] = [k \in 1..Len(pl) |-> 0]]
    /\ idx' = [idx EXCEPT ![p] = 0]
    /\ attempt' = [attempt EXCEPT ![p] = 0]
    /\ pc' = [pc EXCEPT ![p] = "start"]
    /\ UNCHANGED <<ctx, elapsed, page_url, result, cont_result, finishes, cont_calls,
                   goal_arg, driver, ticks,
                   history, goal_text, action_plan, llm, router, executed>>

\* _execute_step_with_retry, attempt > 0: state.retry_step(index).
RetryStep(p) ==
    /\ pc[p] = "retry"
    /\ state' = retry_step(state, idx[p])
    /\ pc' = [pc EXCEPT ![p] = "start"]
    /\ UNCHANGED <<ctx, elapsed, page_url, plan, idx, attempt, result, cont_result,
                   calls, finishes, cont_calls, goal_arg, driver, ticks,
                   history, goal_text, action_plan, llm, router, executed>>

\* _execute_step_with_retry: state.start_step(index).
StartStep(p) ==
    /\ pc[p] = "start"
    /\ state' = start_step(state, idx[p])
    /\ pc' = [pc EXCEPT ![p] = "exec"]
    /\ UNCHANGED <<ctx, elapsed, page_url, plan, idx, attempt, result, cont_result,
                   calls, finishes, cont_calls, goal_arg, driver, ticks,
                   history, goal_text, action_plan, llm, router, executed>>

\* The results self.executor.execute(step.action, step.params) can return.
StepResults(p) ==
    DriverResults(driver, plan[p][idx[p] + 1].action, plan[p][idx[p] + 1].params)

Called(p) == [calls EXCEPT ![p][idx[p] + 1] = @ + 1]

\* The attempt succeeds: complete_step(success=True), update_url, return True.
ExecSuccess(p) ==
    /\ pc[p] = "exec"
    /\ \E r \in StepResults(p) :
         /\ r.success
         /\ page_url' = PageAfter(page_url, plan[p][idx[p] + 1].action, r)
         /\ LET completed == complete_step(state, idx[p], TRUE, "", r.data,
                                           r.screenshot_path)
                current == get_current_url(page_url')
            IN  state' = IF current # "" THEN update_url(completed, current)
                         ELSE completed
    /\ calls' = Called(p)
    /\ AfterStep(p, idx[p])
    /\ UNCHANGED <<ctx, elapsed, plan, result, cont_result, finishes, cont_calls,
                   goal_arg, driver, ticks,
                   history, goal_text, action_plan, llm, router, executed>>

\* A retry loop over range(max_retries + 2): one attempt too many.
ExecFailRetry_ExtraAttempt(p) ==
    /\ pc[p] = "exec"
    /\ attempt[p] # max_retries + 1
    /\ \E r \in StepResults(p) : ~r.success
    /\ calls' = Called(p)
    /\ attempt' = [attempt EXCEPT ![p] = @ + 1]
    /\ pc' = [pc EXCEPT ![p] = "retry"]
    /\ UNCHANGED <<state, ctx, elapsed, page_url, plan, idx, result, cont_result,
                   finishes, cont_calls, goal_arg, driver, ticks,
                   history, goal_text, action_plan, llm, router, executed>>

\* A retry loop that does not count its attempts.
ExecFailRetry_SameAttempt(p) ==
    /\ pc[p] = "exec"
    /\ attempt[p] # max_retries
    /\ \E r \in StepResults(p) : ~r.success
    /\ calls' = Called(p)
    /\ pc' = [pc EXCEPT ![p] = "retry"]
    /\ UNCHANGED <<state, ctx, elapsed, page_url, plan, idx, attempt, result,
                   cont_result, finishes, cont_calls, goal_arg, driver, ticks,
                   history, goal_text, action_plan, llm, router, executed>>

\* A retry loop that logs the error of every failed attempt.
ExecFailRetry_LogsError(p) ==
    /\ pc[p] = "exec"
    /\ attempt[p] # max_retries
    /\ \E r \in StepResults(p) :
         /\ ~r.success
         /\ state' = [state EXCEPT !.errors = Append(@, <<idx[p], r.error>>)]
    /\ calls' = Called(p)
    /\ attempt' = [attempt EXCEPT ![p] = @ + 1]
    /\ pc' = [pc EXCEPT ![p] = "retry"]
    /\ UNCHANGED <<ctx, elapsed, page_url, plan, idx, result, cont_result,
                   finishes, cont_calls, goal_arg, driver, ticks,
                   history, goal_text, action_plan, llm, router, executed>>

\* The attempt fails and attempts remain: the loop goes to the next attempt.
ExecFailRetry(p) ==
    /\ pc[p] = "exec"
    /\ attempt[p] # max_retries
    /\ \E r \in StepResults(p) : ~r.success
    /\ calls' = Called(p)
    /\ attempt' = [attempt EXCEPT ![p] = @ + 1]
    /\ pc' = [pc EXCEPT ![p] = "retry"]
    /\ UNCHANGED <<state, ctx, elapsed, page_url, plan, idx, result, cont_result,
                   finishes, cont_calls, goal_arg, driver, ticks,
                   history, goal_text, action_plan, llm, router, executed>>

\* The last attempt fails: complete_step(success=False), return False.
ExecFailLast(p) ==
    /\ pc[p] = "exec"
    /\ attempt[p] = max_retries
    /\ \E r \in StepResults(p) :
         /\ ~r.success
         /\ state' = complete_step(state, idx[p], FALSE, r.error, EmptyMap, "")
    /\ calls' = Called(p)
    /\ pc' = [pc EXCEPT ![p] = "failed"]
    /\ UNCHANGED <<ctx, elapsed, page_url, plan, idx, attempt, result, cont_result,
                   finishes, cont_calls, goal_arg, driver, ticks,
                   history, goal_text, action_plan, llm, router, executed>>

\* The critical branch without its break: the loop goes on to the next step.
CriticalAbort_NoBreak(p) ==
    /\ pc[p] = "failed"
    /\ _is_critical_step(plan[p][idx[p] + 1].action)
    /\ state' = finish(state, FALSE)
    /\ finishes' = [finishes EXCEPT ![p] = @ + 1]
    /\ AfterStep(p, idx[p])
    /\ UNCHANGED <<ctx, elapsed, page_url, plan, result, cont_result, calls,
                   cont_calls, goal_arg, driver, ticks,
                   history, goal_text, action_plan, llm, router, executed>>

\* execute: a critical step failed: state.finish(False); break.
CriticalAbort(p) ==
    /\ pc[p] = "failed"
    /\ _is_critical_step(plan[p][idx[p] + 1].action)
    /\ state' = finish(state, FALSE)
    /\ finishes' = [finishes EXCEPT ![p] = @ + 1]
    /\ pc' = [pc EXCEPT ![p] = "finalize"]
    /\ UNCHANGED <<ctx, elapsed, page_url, plan, idx, attempt, result, cont_result,
                   calls, cont_calls, goal_arg, driver, ticks,
                   history, goal_text, action_plan, llm, router, executed>>

\* The non-critical branch that goes on to the next step without skip_step.
SkipStep_LeavesFailed(p) ==
    /\ pc[p] = "failed"
    /\ ~_is_critical_step(plan[p][idx[p] + 1].action)
    /\ AfterStep(p, idx[p])
    /\ UNCHANGED <<state, ctx, elapsed, page_url, plan, result, cont_result, calls,
                   finishes, cont_calls, goal_arg, driver, ticks,
                   history, goal_text, action_plan, llm, router, executed>>

\* execute: a non-critical step failed: state.skip_step(i, ...); next step.
SkipStep(p) ==
    /\ pc[p] = "failed"
    /\ ~_is_critical_step(plan[p][idx[p] + 1].action)
    /\ state' = skip_step(state, idx[p], "Failed after retries")
    /\ AfterStep(p, idx[p])
    /\ UNCHANGED <<ctx, elapsed, page_url, plan, result, cont_result, calls, finishes,
                   cont_calls, goal_arg, driver, ticks,
                   history, goal_text, action_plan, llm, router, executed>>

\* execute, step 3: overall success, state.finish(success), the AgentResult.
Finalize(p) ==
    /\ pc[p] = "finalize"
    /\ LET progress == get_progress(state)
           success == \/ progress.failed = 0
                      \/ MeetsThreshold(progress.completed, progress.total)
           finished == finish(state, success)
       IN  /\ state' = finished
           /\ result' = [result EXCEPT ![p] =
                  AgentResult(success, goal_arg[p], _get_result_message(finished),
                              finished.extracted_data, finished.screenshots,
                              progress.completed, progress.total, finished.errors,
                              get_current_url(page_url))]
    /\ finishes' = [finishes EXCEPT ![p] = @ + 1]
    /\ pc' = [pc EXCEPT ![p] = "returned"]
    /\ UNCHANGED <<ctx, elapsed, page_url, plan, idx, attempt, cont_result, calls,
                   cont_calls, goal_arg, driver, ticks,
                   history, goal_text, action_plan, llm, router, executed>>

Last(seq, default) == IF Len(seq) > 0 THEN seq[Len(seq)] ELSE default

\* execute_goal after execute() returned: update_browser_context(url, goal, screenshot).
ExecuteGoalReturn(p) ==
    /\ pc[p] = "returned"
    /\ ctx' = update(ctx, result[p].final_url, goal_arg[p], "",
                     Last(result[p].screenshots, ""), EmptyMap)
    /\ elapsed' = 0
    /\ ticks' = 0
    /\ pc' = [pc EXCEPT ![p] = "idle"]
    /\ plan' = [plan EXCEPT ![p] = <<>>]
    /\ idx' = [idx EXCEPT ![p] = 0]
    /\ attempt' = [attempt EXCEPT ![p] = 0]
    /\ result' = [result EXCEPT ![p] = NoResult]
    /\ calls' = [calls EXCEPT ![p] = <<>>]
    /\ finishes' = [finishes EXCEPT ![p] = 0]
    /\ goal_arg' = [goal_arg EXCEPT ![p] = ""]
    /\ UNCHANGED <<state, page_url, cont_result, cont_calls, driver,
                   history, goal_text, action_plan, llm, router, executed>>

\* The (action, params) pairs the command router hands to execute_continuation.
ContRequests ==
    {[action |-> "browser_click",
      params |-> [k \in {"action", "target"} |->
                    IF k = "action" THEN "browser_click" ELSE "Sign in"]],
     [action |-> "browser_scroll",
      params |-> [k \in {"action", "direction"} |->
                    IF k = "action" THEN "browser_scroll" ELSE "down"]],
     [action |-> "browser_type",
      params |-> [k \in {"action", "text"} |->
                    IF k = "action" THEN "browser_type" ELSE "hello"]],
     [action |-> "browser_back", params |-> [k \in {"action"} |-> "browser_back"]],
     [action |-> "browser_refresh", params |-> [k \in {"action"} |-> "browser_refresh"]]}

\* action_map.get(action, action)
action_map(action) ==
    CASE action = "browser_click" -> "click"
      [] action = "browser_scroll" -> "scroll"
      [] action = "browser_type" -> "type"
      [] action = "browser_back" -> "back"
      [] action = "browser_refresh" -> "refresh"
      [] OTHER -> action

\* The action and the params execute_continuation passes to the executor.
executor_action(req) == action_map(req.action)

executor_params(req) ==
    IF req.action = "browser_click"
    THEN [k \in {"text"} |-> Get(req.params, "target", "")]
    ELSE req.params

\* A rejection that refreshes the BrowserContext before it checks the session.
ContinuationRejected_Updates(req) ==
    /\ Short
    /\ ~is_active(ctx, elapsed)
    /\ ctx' = update(ctx, "", "", req.action, "", EmptyMap)
    /\ elapsed' = 0
    /\ ticks' = 0
    /\ cont_result' = AgentResult(FALSE, "", "No active browser session", EmptyMap,
                                  <<>>, 0, 0, <<>>, "")
    /\ cont_calls' = <<>>
    /\ UNCHANGED <<state, page_url, pc, plan, idx, attempt, result, calls, finishes,
                   goal_arg, driver,
                   history, goal_text, action_plan, llm, router, executed>>

\* execute_continuation without an active session: the immediate failure.
ContinuationRejected(req) ==
    /\ Short
    /\ ~is_active(ctx, elapsed)
    /\ cont_result' = AgentResult(FALSE, "", "No active browser session", EmptyMap,
                                  <<>>, 0, 0, <<>>, "")
    /\ cont_calls' = <<>>
    /\ UNCHANGED <<state, ctx, elapsed, page_url, pc, plan, idx, attempt, result, calls,
                   finishes, goal_arg, driver, ticks,
                   history, goal_text, action_plan, llm, router, executed>>

\* execute_continuation, the action succeeded: context update and the
\* confirmation screenshot.
ContinuationSucceeded(req) ==
    /\ Short
    /\ is_active(ctx, elapsed)
    /\ \E r \in DriverResults(driver, executor_action(req), executor_params(req)) :
         /\ r.success
         /\ page_url' = PageAfter(page_url, executor_action(req), r)
         /\ ctx' = update(ctx, get_current_url(page_url'), "", req.action, "", EmptyMap)
         /\ \E shot \in DriverResults(driver, "screenshot", [k \in {"name"} |-> req.action]) :
              cont_result' =
                  AgentResult(TRUE, "", "executed successfully", EmptyMap,
                              IF shot.success THEN <<shot.screenshot_path>> ELSE <<>>,
                              0, 0, <<>>, get_current_url(page_url'))
    /\ elapsed' = 0
    /\ ticks' = 0
    /\ cont_calls' = <<executor_action(req), "screenshot">>
    /\ UNCHANGED <<state, pc, plan, idx, attempt, result, calls, finishes, goal_arg,
                   driver,
                   history, goal_text, action_plan, llm, router, executed>>

\* A failed continuation that tries the action a second time.
ContinuationFailed_Retries(req) ==
    /\ Short
    /\ is_active(ctx, elapsed)
    /\ \E r \in DriverResults(driver, executor_action(req), executor_params(req)) :
         /\ ~r.success
         /\ cont_result' = AgentResult(FALSE, "", "failed", EmptyMap, <<>>, 0, 0,
                                       <<r.error>>, "")
    /\ cont_calls' = <<executor_action(req), executor_action(req)>>
    /\ UNCHANGED <<state, ctx, elapsed, page_url, pc, plan, idx, attempt, result, calls,
                   finishes, goal_arg, driver, ticks, history, goal_text, action_plan, llm, router, executed>>

\* A failed continuation that logs its error in the AgentState.
ContinuationFailed_RecordsError(req) ==
    /\ Short
    /\ is_active(ctx, elapsed)
    /\ \E r \in DriverResults(driver, executor_action(req), executor_params(req)) :
         /\ ~r.success
         /\ cont_result' = AgentResult(FALSE, "", "failed", EmptyMap, <<>>, 0, 0,
                                       <<r.error>>, "")
         /\ state' = [state EXCEPT !.errors = Append(@, <<0, r.error>>)]
    /\ cont_calls' = <<executor_action(req)>>
    /\ UNCHANGED <<ctx, elapsed, page_url, pc, plan, idx, attempt, result, calls,
                   finishes, goal_arg, driver, ticks, history, goal_text, action_plan, llm, router, executed>>

\* execute_continuation, the action failed.
ContinuationFailed(req) ==
    /\ Short
    /\ is_active(ctx, elapsed)
    /\ \E r \in DriverResults(driver, executor_action(req), executor_params(req)) :
         /\ ~r.success
         /\ cont_result' = AgentResult(FALSE, "", "failed", EmptyMap, <<>>, 0, 0,
                                       <<r.error>>, "")
    /\ cont_calls' = <<executor_action(req)>>
    /\ UNCHANGED <<state, ctx, elapsed, page_url, pc, plan, idx, attempt, result, calls,
                   finishes, goal_arg, driver, ticks,
                   history, goal_text, action_plan, llm, router, executed>>

\* The transport's stop_browser command: browser_context.mark_closed().
MarkClosed ==
    /\ Short
    /\ ctx.is_open
    /\ ctx' = mark_closed(ctx)
    /\ cont_result' = NoResult
    /\ cont_calls' = <<>>
    /\ UNCHANGED <<state, elapsed, page_url, pc, plan, idx, attempt, result, calls,
                   finishes, goal_arg, driver, ticks,
                   history, goal_text, action_plan, llm, router, executed>>

\* The clock advances by d seconds.
Tick(d) ==
    /\ Short
    /\ ctx.last_action_time
    /\ ticks < MaxTicks
    /\ elapsed' = elapsed + d
    /\ ticks' = ticks + 1
    /\ cont_result' = NoResult
    /\ cont_calls' = <<>>
    /\ UNCHANGED <<state, ctx, page_url, pc, plan, idx, attempt, result, calls,
                   finishes, goal_arg, driver,
                   history, goal_text, action_plan, llm, router, executed>>

\* ------------------------------------------------------------- GoalPlanner
\* Text is kept as tokens: a word is a sequence of parts ("www.", "amazon",
\* ".in", "/", ...) and a goal is the sequence of the words of goal_lower
\* (goal.lower().strip(), split at white space).  The regular expressions are
\* matched word by word; the string calls (startswith, replace, split, strip,
\* in) work on the parts.  Descriptions and the goal caption of a plan are
\* not kept.

\* A word of one part.
W(s) == <<s>>

\* Bounds of the goals handed to the planner.
MaxQueryWords == 2
MaxSites == 2

\* The top-level domains the patterns name: (?:com|in|org|net|io).
TldParts == {".com", ".in", ".org", ".net", ".io"}

\* Parts a text starts with when text.startswith("http") holds.
HttpParts == {"https://", "http://", "httpbin"}

\* text.replace(part, "").
Remove(t, part) == SelectSeq(t, LAMBDA x : x # part)

\* text.split("/")[0].
BeforeSlash(t) ==
    IF \E i \in 1..Len(t) : t[i] = "/"
    THEN SubSeq(t, 1, (CHOOSE i \in 1..Len(t) :
                          t[i] = "/" /\ \A j \in 1..(i - 1) : t[j] # "/") - 1)
    ELSE t

\* site.replace("https://", "").replace("http://", "").replace("www.", "")
\*     .split("/")[0]
SiteDomain(site) == BeforeSlash(Remove(Remove(Remove(site, "https://"), "http://"), "www."))

\* text.strip().
RECURSIVE Strip(_)
Strip(t) ==
    IF t = <<>> THEN t
    ELSE IF t[1] = " " THEN Strip(Tail(t))
    ELSE IF t[Len(t)] = " " THEN Strip(SubSeq(t, 1, Len(t) - 1))
    ELSE t

\* " ".join(words): the words as one text.
RECURSIVE Join(_)
Join(ws) ==
    IF ws = <<>> THEN <<>>
    ELSE IF Len(ws) = 1 THEN ws[1]
    ELSE ws[1] \o <<" ">> \o Join(Tail(ws))

\* text.replace(" and ", ",").
RECURSIVE ReplaceAnd(_)
ReplaceAnd(t) ==
    IF Len(t) < 3 THEN t
    ELSE IF SubSeq(t, 1, 3) = <<" ", "and", " ">>
         THEN <<",">> \o ReplaceAnd(SubSeq(t, 4, Len(t)))
         ELSE <<t[1]>> \o ReplaceAnd(Tail(t))

\* text.split(","): the pieces between the commas, empty ones included.
RECURSIVE SplitComma(_)
SplitComma(t) ==
    IF \E i \in 1..Len(t) : t[i] = ","
    THEN LET i == CHOOSE k \in 1..Len(t) : t[k] = "," /\ \A j \in 1..(k - 1) : t[j] # ","
         IN  <<SubSeq(t, 1, i - 1)>> \o SplitComma(SubSeq(t, i + 1, Len(t)))
    ELSE <<t>>

ShoppingAmazon ==
    [search_selector |-> "#twotabsearchtextbox",
     submit_selector |-> "#nav-search-submit-button",
     results_selector |-> "[data-component-type='s-search-result']",
     product_link_selector |->
         "[data-component-type='s-search-result'] h2 a, .s-result-item h2 a",
     product_price_selector |->
         ".a-price .a-offscreen, .a-price-whole, #priceblock_ourprice, #priceblock_dealprice",
     product_title_selector |-> "#productTitle, .product-title",
     product_rating_selector |-> ".a-icon-alt"]

SITE_SEARCH_CONFIG ==
    (<<"youtube", ".com">> :>
        [search_selector |-> "input#search, input[name='search_query']",
         submit_selector |-> None,
         results_selector |-> "ytd-video-renderer, ytd-rich-item-renderer"])
    @@ (<<"amazon", ".in">> :> ShoppingAmazon)
    @@ (<<"amazon", ".com">> :> ShoppingAmazon)
    @@ (<<"google", ".com">> :>
        [search_selector |-> "textarea[name='q'], input[name='q']",
         submit_selector |-> None,
         results_selector |-> "#search .g"])
    @@ (<<"flipkart", ".com">> :>
        [search_selector |-> "input[name='q'], input._3704LK",
         submit_selector |-> "button[type='submit'], button._2iLD__",
         results_selector |-> "div._1AtVbE, div._4ddWXP",
         product_link_selector |-> "div._1AtVbE a, div._4ddWXP a",
         product_price_selector |-> "div._30jeq3",
         product_title_selector |-> "span.B_NuCI",
         product_rating_selector |-> "div._3LWZlK"])
    @@ (<<"github", ".com">> :>
        [search_selector |-> "input[name='q']",
         submit_selector |-> None,
         results_selector |-> ".repo-list-item, .Box-row"])
    @@ (<<"ebay", ".com">> :>
        [search_selector |->
             "input[aria-label*='Search' i], input[type='text'][name='_nkw']",
         submit_selector |->
             "input[type='submit'][value*='Search' i], button[aria-label*='Search' i]",
         results_selector |-> "li.s-item",
         product_link_selector |-> "li.s-item a.s-item__link",
         product_price_selector |-> ".s-item__price",
         product_title_selector |-> "#itemTitle, .s-item__title",
         product_rating_selector |-> ".b-starrating__star, .x-star-rating span.clipped"])

SITE_ALIASES ==
    (<<"youtube">> :> <<"youtube", ".com">>)
    @@ (<<"amazon">> :> <<"amazon", ".in">>)
    @@ (<<"amazon", " ", "india">> :> <<"amazon", ".in">>)
    @@ (<<"amazon", " ", "us">> :> <<"amazon", ".com">>)
    @@ (<<"flipkart">> :> <<"flipkart", ".com">>)
    @@ (<<"google">> :> <<"google", ".com">>)
    @@ (<<"github">> :> <<"github", ".com">>)
    @@ (<<"ebay">> :> <<"ebay", ".com">>)

\* self.site_config.get(domain, {}).
ConfigOf(domain) == Get(SITE_SEARCH_CONFIG, domain, EmptyMap)

ActionStep(action, params) == [action |-> action, params |-> params]

ActionPlan(steps, context) == [steps |-> steps, context |-> context]

\* No plan: None, or what the planner holds before its first call.
NoPlan == [steps |-> <<>>, context |-> EmptyMap]

\* The parts before the first "." of a domain: domain.split(".")[0].
SplitDot0(domain) ==
    IF domain = <<>> \/ domain[1] \in TldParts THEN <<>> ELSE <<domain[1]>>

\* f-strings: the literal and the text put into it.
Named(tag, text) == [tag |-> tag, text |-> text]

_create_simple_navigate_plan(target) ==
    LET url == IF target # <<>> /\ target[1] \in HttpParts
               THEN target ELSE <<"https://">> \o target
        domain == BeforeSlash(Remove(Remove(url, "https://"), "http://"))
    IN  ActionPlan(
            <<ActionStep("navigate", [url |-> url]),
              ActionStep("wait", [ms |-> 500]),
              ActionStep("screenshot", [name |-> Named("page_", domain)])>>,
            EmptyMap)

\* The site with its protocol, as the search plan navigates to it.
WithProtocol(site) ==
    IF site # <<>> /\ site[1] \in HttpParts THEN site
    ELSE IF site # <<>> /\ site[1] = "www." THEN <<"https://">> \o site
    ELSE <<"https://", "www.">> \o site

\* The submit step when the button is always clicked.
SubmitStep_AlwaysClick(config) ==
    ActionStep("click", [selector |-> Get(config, "submit_selector", None)])

\* The step that submits the search: `if submit_selector:`.
SubmitStep(config) ==
    LET submit_selector == Get(config, "submit_selector", None)
    IN  IF submit_selector # None /\ submit_selector # ""
        THEN ActionStep("click", [selector |-> submit_selector])
        ELSE ActionStep("press_key", [key |-> "Enter"])

_create_site_search_plan(site0, query) ==
    LET site == WithProtocol(site0)
        domain == SiteDomain(site)
        config == ConfigOf(domain)
        search_selector ==
            Get(config, "search_selector",
                "input[type='search'], input[name='q'], input[name='search']")
        results_selector == Get(config, "results_selector", "main, #content, .results")
    IN  ActionPlan(
            <<ActionStep("navigate", [url |-> site]),
              ActionStep("wait", [ms |-> 500]),
              ActionStep("wait_for", [selector |-> search_selector, timeout |-> 10000]),
              ActionStep("type", [selector |-> search_selector, text |-> query]),
              SubmitStep(config),
              ActionStep("wait_for", [selector |-> results_selector, timeout |-> 10000]),
              ActionStep("wait", [ms |-> 300]),
              ActionStep("screenshot", [name |-> Named("search_", query)])>>,
            [site |-> domain, query |-> query])

\* The steps of a price check without the closing capture of the product page.
ProductSteps_NoCapture(config, prefix) ==
    <<ActionStep("click", [selector |-> Get(config, "product_link_selector", "a")]),
      ActionStep("extract", [selector |-> Get(config, "product_price_selector", "p"),
                             attribute |-> "text", save_as |-> prefix \o <<"price">>])>>

\* The steps a price check adds to the search plan.
ProductSteps(config, prefix) ==
    LET product_link_selector ==
            Get(config, "product_link_selector",
                "[data-component-type='s-search-result'] h2 a, .s-result-item h2 a")
        price_selector ==
            Get(config, "product_price_selector",
                ".a-price .a-offscreen, .a-price-whole, #priceblock_ourprice, #priceblock_dealprice")
        title_selector ==
            Get(config, "product_title_selector", "#productTitle, .product-title")
        rating_selector ==
            Get(config, "product_rating_selector",
                ".a-icon-alt, ._3LWZlK, .x-star-rating span.clipped")
    IN  <<ActionStep("click", [selector |-> product_link_selector]),
          ActionStep("wait_for", [selector |-> price_selector, timeout |-> 10000]),
          ActionStep("extract", [selector |-> price_selector, attribute |-> "text",
                                 save_as |-> prefix \o <<"price">>]),
          ActionStep("extract", [selector |-> title_selector, attribute |-> "text",
                                 save_as |-> prefix \o <<"product_name">>]),
          ActionStep("extract", [selector |-> rating_selector, attribute |-> "text",
                                 save_as |-> prefix \o <<"rating">>]),
          ActionStep("screenshot", [name |-> "product_price"])>>

_create_price_check_plan(site, product, prefix) ==
    LET plan0 == _create_site_search_plan(site, product)
        config == ConfigOf(SiteDomain(site))
    IN  ActionPlan(plan0.steps \o ProductSteps(config, prefix), plan0.context)

\* The loop of _create_multi_site_compare_plan over the raw site names.
RECURSIVE NormalizeSites(_, _)
NormalizeSites(sites, normalized_sites) ==
    IF sites = <<>> THEN normalized_sites
    ELSE LET name == Strip(sites[1])
             mapped == IF name \in DOMAIN SITE_ALIASES THEN SITE_ALIASES[name]
                       ELSE Get(SITE_ALIASES, Remove(name, ".com"), name)
             domain0 == SiteDomain(mapped)
             domain == IF \E i \in 1..Len(domain0) : domain0[i] \in TldParts
                       THEN domain0 ELSE domain0 \o <<".com">>
         IN  IF name = <<>> THEN NormalizeSites(Tail(sites), normalized_sites)
             ELSE IF \E i \in 1..Len(normalized_sites) : normalized_sites[i] = domain
             THEN NormalizeSites(Tail(sites), normalized_sites)
             ELSE NormalizeSites(Tail(sites), Append(normalized_sites, domain))

DefaultSites == <<<<"amazon", ".in">>, <<"flipkart", ".com">>, <<"ebay", ".com">>>>

\* The sub-plans of the sites, one after the other.
RECURSIVE SubPlans(_, _)
SubPlans(product, domains) ==
    IF domains = <<>> THEN <<>>
    ELSE LET domain == domains[1]
             url == <<"https://", "www.">> \o domain
             prefix == SplitDot0(domain) \o <<"_">>
         IN  _create_price_check_plan(url, product, prefix).steps
                 \o SubPlans(product, Tail(domains))

_create_multi_site_compare_plan(product, sites) ==
    LET normalized == NormalizeSites(sites, <<>>)
        normalized_sites == IF normalized = <<>> THEN DefaultSites ELSE normalized
    IN  ActionPlan(SubPlans(product, normalized_sites),
                   [type |-> "multi_site_compare", product |-> product,
                    sites |-> normalized_sites])

_fallback_plan ==
    ActionPlan(<<ActionStep("navigate", [url |-> <<"https://", "www.", "google", ".com">>])>>,
               EmptyMap)

\* (?:open|go to|visit|browse)
OpenPhrases == {<<W("open")>>, <<W("go"), W("to")>>, <<W("visit")>>, <<W("browse")>>}

\* (?:search|find|look for)
FindPhrases == {<<W("search")>>, <<W("find")>>, <<W("look"), W("for")>>}

\* (youtube|amazon|flipkart|google|github|ebay)
ShortNames == {"youtube", "amazon", "flipkart", "google", "github", "ebay"}

\* (youtube|amazon|flipkart|google|github)
QuickNames == {"youtube", "amazon", "flipkart", "google", "github"}

\* The phrases of P found in ws at word i.
PhraseAt(ws, i, P) ==
    {p \in P : i + Len(p) - 1 <= Len(ws) /\ SubSeq(ws, i, i + Len(p) - 1) = p}

\* The word after the phrase of P found at word i.
After(ws, i, P) == i + Len(CHOOSE p \in PhraseAt(ws, i, P) : TRUE)

\* re.search takes the leftmost match.
Leftmost(S) == CHOOSE i \in S : \A j \in S : i <= j

NoMatch == [matched |-> FALSE]

Match(site, query) == [matched |-> TRUE, site |-> site, query |-> query]

\* group(n).strip() of the words from a to b.
Group(ws, a, b) == Strip(Join(SubSeq(ws, a, b)))

\* The longest start of a word that matches \S+\.(?:com|in|org|net|io).
DomainPrefix(w) ==
    LET E == {k \in 2..Len(w) : w[k] \in TldParts}
    IN  IF E = {} THEN <<>>
        ELSE SubSeq(w, 1, CHOOSE k \in E : \A j \in E : j <= k)

\* (?:open|go to|visit|browse)\s+(youtube|...|ebay)\s+(?:and|then)\s+
\* (?:search|find|look for)\s+(.+)
short_match(ws) ==
    LET Ok(i) ==
            /\ PhraseAt(ws, i, OpenPhrases) # {}
            /\ LET a == After(ws, i, OpenPhrases)
               IN  /\ a + 2 <= Len(ws)
                   /\ ws[a] \in {W(n) : n \in ShortNames}
                   /\ ws[a + 1] \in {W("and"), W("then")}
                   /\ PhraseAt(ws, a + 2, FindPhrases) # {}
                   /\ After(ws, a + 2, FindPhrases) <= Len(ws)
        S == {i \in 1..Len(ws) : Ok(i)}
    IN  IF S = {} THEN NoMatch
        ELSE LET a == After(ws, Leftmost(S), OpenPhrases)
             IN  Match(ws[a], Group(ws, After(ws, a + 2, FindPhrases), Len(ws)))

\* (?:open|go to|visit|browse)\s+(\S+\.(?:com|in|org|net|io))\s+(?:and|then)\s+
\* (?:search|find|look for)\s+(.+)
compound_match(ws) ==
    LET Ok(i) ==
            /\ PhraseAt(ws, i, OpenPhrases) # {}
            /\ LET a == After(ws, i, OpenPhrases)
               IN  /\ a + 2 <= Len(ws)
                   /\ DomainPrefix(ws[a]) = ws[a]
                   /\ ws[a + 1] \in {W("and"), W("then")}
                   /\ PhraseAt(ws, a + 2, FindPhrases) # {}
                   /\ After(ws, a + 2, FindPhrases) <= Len(ws)
        S == {i \in 1..Len(ws) : Ok(i)}
    IN  IF S = {} THEN NoMatch
        ELSE LET a == After(ws, Leftmost(S), OpenPhrases)
             IN  Match(ws[a], Group(ws, After(ws, a + 2, FindPhrases), Len(ws)))

\* (?:search|find|look for)\s+(.+?)\s+(?:on|in)\s+(\S+\.(?:com|in|org|net|io))
site_search_match(ws) ==
    LET Ends(i) ==
            {k \in (After(ws, i, FindPhrases) + 1)..(Len(ws) - 1) :
                ws[k] \in {W("on"), W("in")} /\ DomainPrefix(ws[k + 1]) # <<>>}
        S == {i \in 1..Len(ws) : PhraseAt(ws, i, FindPhrases) # {} /\ Ends(i) # {}}
    IN  IF S = {} THEN NoMatch
        ELSE LET i == Leftmost(S)
                 k == Leftmost(Ends(i))
             IN  Match(DomainPrefix(ws[k + 1]),
                       Group(ws, After(ws, i, FindPhrases), k - 1))

\* (youtube|amazon|flipkart|google|github)\s+(?:search|find)\s+(.+)
quick_search_match(ws) ==
    LET S == {i \in 1..(Len(ws) - 2) :
                 /\ ws[i][Len(ws[i])] \in QuickNames
                 /\ ws[i + 1] \in {W("search"), W("find")}}
    IN  IF S = {} THEN NoMatch
        ELSE LET i == Leftmost(S)
             IN  Match(<<ws[i][Len(ws[i])]>>, Group(ws, i + 2, Len(ws)))

\* (?:find|get|check)\s+(?:the\s+)?price\s+(?:of\s+)?(.+?)\s+(?:on|from)\s+
\* (amazon|flipkart)
price_match(ws) ==
    LET PriceAt(i) ==
            IF i + 2 <= Len(ws) /\ ws[i + 1] = W("the") /\ ws[i + 2] = W("price")
            THEN i + 2
            ELSE IF i + 1 <= Len(ws) /\ ws[i + 1] = W("price") THEN i + 1 ELSE 0
        Ends(from) ==
            {k \in (from + 1)..(Len(ws) - 1) :
                ws[k] \in {W("on"), W("from")} /\ ws[k + 1][1] \in {"amazon", "flipkart"}}
        \* the product starts after "of" when the rest still matches
        Start(i) ==
            LET s0 == PriceAt(i) + 1
            IN  IF s0 <= Len(ws) /\ ws[s0] = W("of") /\ Ends(s0 + 1) # {}
                THEN s0 + 1 ELSE s0
        S == {i \in 1..Len(ws) :
                 /\ ws[i] \in {W("find"), W("get"), W("check")}
                 /\ PriceAt(i) # 0
                 /\ Ends(Start(i)) # {}}
    IN  IF S = {} THEN NoMatch
        ELSE LET i == Leftmost(S)
                 k == Leftmost(Ends(Start(i)))
             IN  Match(<<ws[k + 1][1]>>, Group(ws, Start(i), k - 1))

\* compare\s+prices?\s+(?:for|of)\s+(.+?)(?:\s+(?:across|on|between)\s+(.+))?$
\* query is the product, site the text of the sites ("" when there is none).
multi_compare_match(ws) ==
    LET Ends(i) ==
            {k \in (i + 4)..(Len(ws) - 1) :
                ws[k] \in {W("across"), W("on"), W("between")}}
        S == {i \in 1..(Len(ws) - 3) :
                 /\ ws[i] = W("compare")
                 /\ ws[i + 1] \in {W("price"), W("prices")}
                 /\ ws[i + 2] \in {W("for"), W("of")}}
    IN  IF S = {} THEN NoMatch
        ELSE LET i == Leftmost(S)
             IN  IF Ends(i) = {} THEN Match(<<>>, Group(ws, i + 3, Len(ws)))
                 ELSE LET k == Leftmost(Ends(i))
                      IN  Match(Group(ws, k + 1, Len(ws)), Group(ws, i + 3, k - 1))

\* (?:open|go\s+to|visit|browse)\s+(\S+)
simple_open_match(ws) ==
    LET S == {i \in 1..Len(ws) :
                 PhraseAt(ws, i, OpenPhrases) # {} /\ After(ws, i, OpenPhrases) <= Len(ws)}
    IN  IF S = {} THEN NoMatch
        ELSE Match(ws[After(ws, Leftmost(S), OpenPhrases)], <<>>)

\* The site names of a compare goal: the loop over sites_clean.split(",").
RECURSIVE CompareSites(_)
CompareSites(parts) ==
    IF parts = <<>> THEN <<>>
    ELSE LET name == Strip(parts[1])
             mapped == Get(SITE_ALIASES, name,
                           Get(SITE_ALIASES, Remove(name, ".com"), name))
         IN  IF name = <<>> THEN CompareSites(Tail(parts))
             ELSE <<mapped>> \o CompareSites(Tail(parts))

\* The pattern of _pattern_plan that takes the goal ("none" when none does).
PatternOf(ws) ==
    IF short_match(ws).matched THEN "short"
    ELSE IF compound_match(ws).matched THEN "compound"
    ELSE IF site_search_match(ws).matched THEN "site_search"
    ELSE IF quick_search_match(ws).matched THEN "quick_search"
    ELSE IF price_match(ws).matched THEN "price"
    ELSE IF multi_compare_match(ws).matched THEN "multi_compare"
    ELSE IF simple_open_match(ws).matched THEN "simple_open"
    ELSE "none"

_pattern_plan(ws) ==
    LET kind == PatternOf(ws)
    IN  CASE kind = "short" ->
                LET m == short_match(ws)
                IN  _create_site_search_plan(
                        Get(SITE_ALIASES, m.site, m.site \o <<".com">>), m.query)
          [] kind = "compound" ->
                LET m == compound_match(ws)
                IN  _create_site_search_plan(m.site, m.query)
          [] kind = "site_search" ->
                LET m == site_search_match(ws)
                IN  _create_site_search_plan(m.site, m.query)
          [] kind = "quick_search" ->
                LET m == quick_search_match(ws)
                IN  _create_site_search_plan(
                        Get(SITE_ALIASES, m.site, m.site \o <<".com">>), m.query)
          [] kind = "price" ->
                LET m == price_match(ws)
                    site == m.site \o (IF m.site[1] = "amazon" THEN <<".in">> ELSE <<".com">>)
                IN  _create_price_check_plan(site, m.query, <<>>)
          [] kind = "multi_compare" ->
                LET m == multi_compare_match(ws)
                    sites == IF m.site = <<>> THEN <<>>
                             ELSE CompareSites(SplitComma(ReplaceAnd(m.site)))
                IN  _create_multi_site_compare_plan(
                        m.query, IF sites = <<>> THEN DefaultSites ELSE sites)
          [] kind = "simple_open" ->
                LET target == simple_open_match(ws).site
                IN  _create_simple_navigate_plan(
                        IF target \in DOMAIN SITE_ALIASES THEN SITE_ALIASES[target]
                        ELSE IF \E i \in 1..Len(target) : target[i] \in TldParts \cup HttpParts
                             THEN target
                             ELSE target \o <<".com">>)
          [] OTHER -> NoPlan

\* The LLM collaborator at a plan call: the PLANNER_USE_LLM flag and what the
\* call of ollama.chat comes to: it "raises", its text holds no {...}
\* ("no_json"), json.loads rejects it ("malformed"), or it parses to an
\* "object" whose steps (none when the key is missing or its list is empty)
\* are the dicts of the reply.
LlmReply(use_llm, outcome, steps) ==
    [use_llm |-> use_llm, outcome |-> outcome, steps |-> steps]

\* Before the first plan call.
NotCalled == LlmReply(FALSE, "no_call_yet", <<>>)

\* PLANNER_USE_LLM is false (the default): the collaborator is not called.
LlmOff == LlmReply(FALSE, "disabled", <<>>)

\* Longest list of steps in a reply of the collaborator.
MaxLlmSteps == 2

\* The step dicts a reply is made of: actions of the vocabulary, an action
\* outside it, and a dict without the "action" key.
LlmStepDicts ==
    {[k \in {"action", "url"} |-> IF k = "action" THEN "navigate" ELSE "https://site"],
     [k \in {"action", "selector"} |-> IF k = "action" THEN "click" ELSE "a.link"],
     [k \in {"action", "selector"} |-> IF k = "action" THEN "hover" ELSE "a.link"],
     [k \in {"selector"} |-> "a.link"],
     [k \in {"action", "name"} |-> IF k = "action" THEN "screenshot" ELSE "result"]}

LlmReplies ==
    {LlmOff}
    \cup {LlmReply(TRUE, o, <<>>) : o \in {"raises", "no_json", "malformed"}}
    \cup {LlmReply(TRUE, "object", steps) :
            steps \in UNION {[1..n -> LlmStepDicts] : n \in 0..MaxLlmSteps}}

\* The steps _llm_plan builds from the dicts of a reply:
\* action = step_data.pop("action", "unknown"), params = the rest.
LlmSteps(dicts) ==
    [i \in 1..Len(dicts) |->
        ActionStep(Get(dicts[i], "action", "unknown"),
                   Restrict(dicts[i], (DOMAIN dicts[i]) \ {"action"}))]

\* _llm_plan that returns the plan of a reply whatever the number of its steps.
_llm_plan_NoStepsCheck(l) ==
    IF ~l.use_llm THEN _fallback_plan
    ELSE IF l.outcome = "object" THEN ActionPlan(LlmSteps(l.steps), EmptyMap)
    ELSE _fallback_plan

_llm_plan(l) ==
    IF ~l.use_llm THEN _fallback_plan
    ELSE IF l.outcome = "object" /\ LlmSteps(l.steps) # <<>>
         THEN ActionPlan(LlmSteps(l.steps), EmptyMap)
         ELSE _fallback_plan

\* GoalPlanner.plan with the collaborator l.
plan_goal(ws, l) ==
    LET pl == _pattern_plan(ws)
    IN  IF pl.steps # <<>> THEN pl ELSE _llm_plan(l)

\* GoalPlanner.plan with the language model switched off (PLANNER_USE_LLM
\* defaults to false): _llm_plan returns the fallback plan.
GoalPlanner_plan(ws) == plan_goal(ws, LlmOff)

\* Goals handed to the planner: each pattern with short names, known and
\* unknown domains, URLs, and goals no pattern takes.
QueryWords == {"iphone", "laptop"}

Queries == UNION {[1..n -> {W(q) : q \in QueryWords}] : n \in 1..MaxQueryWords}

SiteWords ==
    {<<"amazon">>, <<"notes">>, <<"amazon", ".in">>, <<"youtube", ".com">>,
     <<"www.", "flipkart", ".com">>, <<"shop", ".org">>,
     <<"https://", "www.", "amazon", ".in", "/", "deals">>, <<"httpbin", ".org">>}

PriceSiteWords == {<<"amazon">>, <<"flipkart">>, <<"amazon", ".com">>, <<"notes">>}

\* Site names as a compare goal lists them, each a sequence of words.
CompareNames ==
    {<<W("amazon")>>, <<<<"flipkart", ".com">>>>, <<W("amazon"), W("india")>>,
     <<<<"www.", "amazon", ".com">>>>, <<W("shop")>>}

\* The words of a list of names, separated by "," or by "and".
RECURSIVE ListWords(_, _)
ListWords(names, sep) ==
    IF Len(names) = 1 THEN names[1]
    ELSE LET n == names[1]
         IN  (IF sep = ","
              THEN SubSeq(n, 1, Len(n) - 1) \o <<n[Len(n)] \o <<",">>>>
              ELSE n \o <<W("and")>>)
             \o ListWords(Tail(names), sep)

SiteLists ==
    {ListWords(names, sep) :
        names \in UNION {[1..n -> CompareNames] : n \in 1..MaxSites},
        sep \in {",", "and"}}

GoalTexts ==
    {v \o <<s>> : v \in OpenPhrases, s \in SiteWords}
    \cup {<<W("open"), s, W("and"), W("search")>> \o q : s \in SiteWords, q \in Queries}
    \cup {<<W("go"), W("to"), <<"amazon">>, W("then"), W("look"), W("for")>> \o q :
            q \in Queries}
    \cup {<<W("find")>> \o q \o <<W("on"), s>> : q \in Queries, s \in SiteWords}
    \cup {<<s, W("search")>> \o q : s \in SiteWords, q \in Queries}
    \cup {<<W("get"), W("price"), W("of")>> \o q \o <<W("on"), s>> :
            q \in Queries, s \in PriceSiteWords}
    \cup {<<W("check"), W("the"), W("price")>> \o q \o <<W("from"), s>> :
            q \in Queries, s \in PriceSiteWords}
    \cup {<<W("compare"), W("prices"), W("for"), W(q)>> : q \in QueryWords}
    \cup {<<W("compare"), W("prices"), W("for"), W("iphone"), W("across")>> \o l :
            l \in SiteLists}
    \cup {<<W("hello")>>}
    \cup {<<W("search")>> \o q : q \in Queries}

\* plan_goal(goal).
PlanGoalText(ws) ==
    /\ goal_text' = ws
    /\ action_plan' = GoalPlanner_plan(ws)
    /\ llm' = LlmOff
    /\ UNCHANGED <<state, ctx, elapsed, page_url, pc, plan, idx, attempt, result,
                   cont_result, calls, finishes, cont_calls, goal_arg, driver, ticks,
                   history, router, executed>>

\* --------------------------------------------------------- KeywordMatcher
\* A text is a sequence of parts, blanks (" ") included; a part is a run of
\* characters no trigger, synonym or pattern of this model divides, so that
\* `in`, startswith, replace and split are computed on whole parts.  Blanks
\* are single.

\* text.replace(sub, by)
RECURSIVE Replace(_, _, _)
Replace(t, sub, by) ==
    IF ~Contains(t, sub) THEN t
    ELSE LET i == Leftmost(Occurrences(t, sub))
         IN  SubSeq(t, 1, i - 1) \o by \o Replace(SubSeq(t, i + Len(sub), Len(t)), sub, by)

\* text.split(sub, 1)[-1]
AfterFirst(t, sub) ==
    IF ~Contains(t, sub) THEN t
    ELSE SubSeq(t, Leftmost(Occurrences(t, sub)) + Len(sub), Len(t))

\* KeywordMatcher._normalize_text
_normalize_text(t) == Strip(Lower(t))

\* The entries of SYNONYMS whose variations occur in the texts of this model,
\* in the order of the dictionary: <<standard, variation>>.
SYNONYMS ==
    <<<<<<"search">>, <<"google">>>>,
      <<<<"search">>, <<"look", " ", "up">>>>,
      <<<<"search">>, <<"look", " ", "for">>>>,
      <<<<"browse">>, <<"go", " ", "to">>>>,
      <<<<"browse">>, <<"visit">>>>,
      <<<<"browse">>, <<"navigate", " ", "to">>>>>>

\* KeywordMatcher._expand_synonyms: the variations replaced one after the other.
RECURSIVE ExpandFrom(_, _)
ExpandFrom(t, k) ==
    IF k > Len(SYNONYMS) THEN t
    ELSE ExpandFrom(Replace(t, SYNONYMS[k][2], SYNONYMS[k][1]), k + 1)

_expand_synonyms(t) == ExpandFrom(Lower(t), 1)

\* The entries of COMMAND_PATTERNS whose triggers occur in the texts of this
\* model, in the order of the dictionary.  template is the key of the
\* action_template that holds "$1" ("" when the entry has a plain action).
Pattern(name, triggers, extract, action, template) ==
    [name |-> name, triggers |-> triggers, extract_pattern |-> extract,
     action |-> action, template |-> template]

COMMAND_PATTERNS ==
    <<Pattern("take_screenshot",
              <<<<"screenshot">>, <<"ss">>, <<"snap">>, <<"capture", " ", "screen">>,
                <<"screen", " ", "capture">>, <<"/", "screenshot">>>>,
              FALSE, "take_screenshot", ""),
      Pattern("web_search",
              <<<<"search">>, <<"google">>, <<"look", " ", "up">>,
                <<"find", " ", "online">>, <<"/", "search">>>>,
              TRUE, "web_search", "query"),
      Pattern("browser_compare",
              <<<<"compare", " ", "price", "s">>, <<"compare", " ", "price">>,
                <<"price", " ", "comparison">>>>,
              TRUE, "browser_agent", "goal"),
      Pattern("browser_goal",
              <<<<"open">>, <<"go", " ", "to">>, <<"visit">>, <<"browse">>,
                <<"/", "browse">>>>,
              TRUE, "browser_agent", "goal"),
      Pattern("browser_navigate",
              <<<<"browse">>, <<"go", " ", "to">>, <<"open">>, <<"visit">>,
                <<"navigate", " ", "to">>, <<"/", "browse">>>>,
              TRUE, "browser_navigate", "url")>>

\* self.patterns[cmd_name]
PatternNamed(name) ==
    COMMAND_PATTERNS[CHOOSE k \in 1..Len(COMMAND_PATTERNS) : COMMAND_PATTERNS[k].name = name]

\* _build_trigger_index: the triggers in the order they are first entered,
\* each with cmd_names[0], the first command that lists it.
RECURSIVE IndexFrom(_, _, _)
IndexFrom(k, j, index) ==
    IF k > Len(COMMAND_PATTERNS) THEN index
    ELSE IF j > Len(COMMAND_PATTERNS[k].triggers) THEN IndexFrom(k + 1, 1, index)
    ELSE LET trigger == COMMAND_PATTERNS[k].triggers[j]
         IN  IF \E e \in 1..Len(index) : index[e][1] = trigger
             THEN IndexFrom(k, j + 1, index)
             ELSE IndexFrom(k, j + 1, Append(index, <<trigger, COMMAND_PATTERNS[k].name>>))

trigger_index == IndexFrom(1, 1, <<>>)

\* The triggers of at most two characters: len(t) <= 2 and t.isalnum().
ShortTriggers == {<<"ss">>}

\* re.search(rf"\b{t}\b", text): the part t between blanks or the ends.
WholeWord(t, w) ==
    \E i \in Occurrences(t, w) :
        /\ i = 1 \/ t[i - 1] = " "
        /\ i + Len(w) - 1 = Len(t) \/ t[i + Len(w)] = " "

\* KeywordMatcher._trigger_matches
_trigger_matches(text_expanded, trigger) ==
    IF trigger = <<>> THEN FALSE
    ELSE IF trigger[1] = "/" THEN StartsWith(text_expanded, trigger)
    ELSE IF \E i \in 1..Len(trigger) : trigger[i] = " " THEN Contains(text_expanded, trigger)
    ELSE IF trigger \in ShortTriggers THEN WholeWord(text_expanded, trigger)
    ELSE Contains(text_expanded, trigger) \/ StartsWith(text_expanded, trigger)

\* The outcome of re.search: whether the pattern matched and group(1).
Found(g) == [matched |-> TRUE, group |-> g]
NotFound == [matched |-> FALSE, group |-> <<>>]

\* The first alternative of a pattern "(?:p1|p2|...)rest" that matches at
\* position i and leaves something for the rest, 0 when there is none.
FirstPrefixAt(t, i, prefixes) ==
    LET fits == {k \in 1..Len(prefixes) :
                    /\ i + Len(prefixes[k]) <= Len(t)
                    /\ SubSeq(t, i, i + Len(prefixes[k]) - 1) = prefixes[k]}
    IN  IF fits = {} THEN 0 ELSE Leftmost(fits)

\* web_search: (?:search\s+(?:for\s+)?|google\s+|look\s+up\s+|find\s+online\s+|/search\s+)(.+)
WebSearchPrefixes ==
    <<<<"search", " ", "for", " ">>, <<"search", " ">>, <<"google", " ">>,
      <<"look", " ", "up", " ">>, <<"find", " ", "online", " ">>,
      <<"/", "search", " ">>>>

\* browser_navigate: (?:browse\s+|go\s+to\s+|open\s+|visit\s+|navigate\s+to\s+|/browse\s+)(\S+)
NavigatePrefixes ==
    <<<<"browse", " ">>, <<"go", " ", "to", " ">>, <<"open", " ">>, <<"visit", " ">>,
      <<"navigate", " ", "to", " ">>, <<"/", "browse", " ">>>>

\* browser_goal: ((?:open|go\s+to|visit|browse|/browse)\s+.+(?:and|then)\s+.+)
GoalVerbs ==
    <<<<"open">>, <<"go", " ", "to">>, <<"visit">>, <<"browse">>, <<"/", "browse">>>>

\* The run of non-blank parts at the head of a text: \S+
RECURSIVE NonBlankRun(_)
NonBlankRun(t) ==
    IF t = <<>> \/ Head(t) = " " THEN <<>> ELSE <<Head(t)>> \o NonBlankRun(Tail(t))

\* "\s+.+(?:and|then)\s+.+" matches the text that follows a verb.
GoalTail(rest) ==
    /\ Len(rest) >= 1 /\ rest[1] = " "
    /\ \E j \in 3..(Len(rest) - 2) :
           rest[j] \in {"and", "then"} /\ rest[j + 1] = " "

\* re.search(config["extract_pattern"], normalized_text) for the command.
extract_pattern(name, t) ==
    IF name = "web_search" THEN
        LET at == {i \in 1..Len(t) : FirstPrefixAt(t, i, WebSearchPrefixes) # 0}
        IN  IF at = {} THEN NotFound
            ELSE LET i == Leftmost(at)
                     k == FirstPrefixAt(t, i, WebSearchPrefixes)
                 IN  Found(SubSeq(t, i + Len(WebSearchPrefixes[k]), Len(t)))
    ELSE IF name = "browser_compare" THEN
        LET at == {i \in 1..(Len(t) - 1) : t[i] = "compare"}
        IN  IF at = {} THEN NotFound ELSE Found(SubSeq(t, Leftmost(at), Len(t)))
    ELSE IF name = "browser_goal" THEN
        LET at == {i \in 1..Len(t) :
                      \E k \in 1..Len(GoalVerbs) :
                          /\ i + Len(GoalVerbs[k]) - 1 <= Len(t)
                          /\ SubSeq(t, i, i + Len(GoalVerbs[k]) - 1) = GoalVerbs[k]
                          /\ GoalTail(SubSeq(t, i + Len(GoalVerbs[k]), Len(t)))}
        IN  IF at = {} THEN NotFound ELSE Found(SubSeq(t, Leftmost(at), Len(t)))
    ELSE IF name = "browser_navigate" THEN
        LET at == {i \in 1..Len(t) :
                      LET k == FirstPrefixAt(t, i, NavigatePrefixes)
                      IN  k # 0 /\ t[i + Len(NavigatePrefixes[k])] # " "}
        IN  IF at = {} THEN NotFound
            ELSE LET i == Leftmost(at)
                     k == FirstPrefixAt(t, i, NavigatePrefixes)
                 IN  Found(NonBlankRun(SubSeq(t, i + Len(NavigatePrefixes[k]), Len(t))))
    ELSE NotFound

\* A command dict.  The value of no command, Python's None, is NoCommand.
NoCommand == [action |-> None]
Filled(config, entity) ==
    IF config.template = "goal" THEN [action |-> config.action, goal |-> entity]
    ELSE IF config.template = "query" THEN [action |-> config.action, query |-> entity]
    ELSE [action |-> config.action, url |-> entity]

\* The fallback of _extract_and_build: the text after the first trigger of the
\* command that occurs in the text and has something after it.
RECURSIVE AfterTrigger(_, _, _)
AfterTrigger(config, normalized_text, k) ==
    IF k > Len(config.triggers) THEN NoCommand
    ELSE LET trigger == config.triggers[k]
             entity == Strip(AfterFirst(normalized_text, trigger))
         IN  IF Contains(normalized_text, trigger) /\ entity # <<>>
             THEN Filled(config, entity)
             ELSE AfterTrigger(config, normalized_text, k + 1)

\* KeywordMatcher._extract_and_build
_extract_and_build(normalized_text, config) ==
    IF ~config.extract_pattern THEN [action |-> config.action]
    ELSE LET m == extract_pattern(config.name, normalized_text)
         IN  IF m.matched THEN Filled(config, Strip(m.group))
             ELSE AfterTrigger(config, normalized_text, 1)

\* multi_step_hints
multi_step_hints ==
    <<<<"and", " ", "search">>, <<"and", " ", "find">>, <<"then", " ", "search">>,
      <<"then", " ", "find">>, <<"and", " ", "click">>, <<"and", " ", "select">>,
      <<"and", " ", "add">>>>

\* The hints of the URL detection and the endings its pattern accepts.
UrlHints == {".com", ".in", ".org", ".net", ".io", "https://", "http://", "www."}
UrlTlds == {".com", ".in", ".org", ".net", ".io"}

\* re.search(r'(https?://\S+|www\.\S+|\S+\.(com|in|org|net|io)\S*)', text):
\* the first run of non-blank parts that holds an address.
url_match(t) ==
    LET IsUrl(w) ==
            /\ Len(w) >= 2
            /\ \/ w[1] \in {"https://", "http://", "www."}
               \/ \E j \in 2..Len(w) : w[j] \in UrlTlds
        at == {i \in 1..Len(t) :
                  /\ i = 1 \/ t[i - 1] = " "
                  /\ IsUrl(NonBlankRun(SubSeq(t, i, Len(t))))}
    IN  IF at = {} THEN NotFound
        ELSE Found(NonBlankRun(SubSeq(t, Leftmost(at), Len(t))))

\* What match found: the command it returns, the command name whose entry
\* produced it and the trigger that selected the entry (None when the
\* command does not come from the table).
Matched(command, cmd_name, trigger) ==
    [command |-> command, cmd_name |-> cmd_name, trigger |-> trigger]

\* The last step of match: the URL detection.
UrlDetection(text_normalized) ==
    IF /\ \E i \in 1..Len(text_normalized) : text_normalized[i] \in UrlHints
       /\ url_match(text_normalized).matched
    THEN Matched([action |-> "browse_url", url |-> url_match(text_normalized).group],
                 None, <<>>)
    ELSE Matched(NoCommand, None, <<>>)

\* The loop of match over trigger_index, from its k-th entry on.
RECURSIVE TriggerScan(_, _, _)
TriggerScan(text_normalized, text_expanded, k) ==
    IF k > Len(trigger_index) THEN UrlDetection(text_normalized)
    ELSE LET trigger == trigger_index[k][1]
             config == PatternNamed(trigger_index[k][2])
         IN  IF ~_trigger_matches(text_expanded, trigger)
             THEN TriggerScan(text_normalized, text_expanded, k + 1)
             ELSE IF config.extract_pattern
             THEN LET action == _extract_and_build(text_normalized, config)
                  IN  IF action # NoCommand
                      THEN Matched(action, config.name, trigger)
                      ELSE TriggerScan(text_normalized, text_expanded, k + 1)
             ELSE Matched([action |-> config.action], config.name, trigger)

\* The text after the first eight characters: [len("/browse "):]
AfterBrowse(t) == SubSeq(t, 4, Len(t))

\* KeywordMatcher.match, with what produced the command.
MatchScan(text) ==
    IF text = <<>> THEN Matched(NoCommand, None, <<>>)
    ELSE
    LET text_normalized == _normalize_text(text)
        text_expanded == _expand_synonyms(text_normalized)
        goal == Strip(AfterBrowse(Strip(text)))
        hinted == \E h \in 1..Len(multi_step_hints) :
                      Contains(text_normalized, multi_step_hints[h])
        built == _extract_and_build(text_normalized, PatternNamed("browser_goal"))
    IN  IF StartsWith(text_normalized, <<"/", "browse", " ">>) /\ goal # <<>>
        THEN Matched([action |-> "browser_agent", goal |-> goal], None, <<>>)
        ELSE IF hinted /\ built # NoCommand
        THEN Matched(built, "browser_goal", <<>>)
        ELSE TriggerScan(text_normalized, text_expanded, 1)

\* KeywordMatcher.match / match_command
match(text) == MatchScan(text).command

\* ---------------------------------------------------------- CommandRouter
\* What the LLM collaborator (brain.process_command) does when it is called:
\* it raises, or returns None, an empty dict or a command.
BrainReply(raises, value) == [raises |-> raises, value |-> value]
BrainReplies ==
    {BrainReply(TRUE, NoCommand), BrainReply(FALSE, NoCommand),
     BrainReply(FALSE, EmptyMap), BrainReply(FALSE, [action |-> "general_chat"])}

\* Python's truth value of what a tier returns.
Truthy(value) == value # NoCommand /\ value # EmptyMap

\* What a call of route leaves: the pair it returns, the tiers it consulted
\* in order, whether an exception left the call, and last_tier_used.
Routed(command, tier, consulted, raised, last_tier_used) ==
    [command |-> command, tier |-> tier, consulted |-> consulted,
     raised |-> raised, last_tier_used |-> last_tier_used]

\* route with the exception of tier 1 left uncaught.
route_Tier1Propagates(text, tier1_raises, brain, last_tier_used) ==
    IF text = <<>> \/ Strip(text) = <<>>
    THEN Routed(NoCommand, 0, <<>>, FALSE, last_tier_used)
    ELSE IF tier1_raises
    THEN Routed(NoCommand, 0, <<1>>, TRUE, last_tier_used)
    ELSE IF Truthy(match(text))
    THEN Routed(match(text), 1, <<1>>, FALSE, 1)
    ELSE IF ~brain.raises /\ Truthy(brain.value)
    THEN Routed(brain.value, 3, <<1, 3>>, FALSE, 3)
    ELSE Routed(NoCommand, 0, <<1, 3>>, FALSE, last_tier_used)

\* CommandRouter.route: tier1_raises says whether the keyword matcher (or its
\* import) raises, brain is what the LLM collaborator does.
route(text, tier1_raises, brain, last_tier_used) ==
    IF text = <<>> \/ Strip(text) = <<>>
    THEN Routed(NoCommand, 0, <<>>, FALSE, last_tier_used)
    ELSE IF ~tier1_raises /\ Truthy(match(text))
    THEN Routed(match(text), 1, <<1>>, FALSE, 1)
    ELSE IF ~brain.raises /\ Truthy(brain.value)
    THEN Routed(brain.value, 3, <<1, 3>>, FALSE, 3)
    ELSE Routed(NoCommand, 0, <<1, 3>>, FALSE, last_tier_used)

\* The router before its first call, and a call's inputs next to its outcome.
NoCall ==
    [op |-> "none", text |-> <<>>, tier1_raises |-> FALSE,
     brain |-> BrainReply(FALSE, NoCommand), matched |-> Matched(NoCommand, None, <<>>),
     out |-> Routed(NoCommand, 0, <<>>, FALSE, 0)]

\* ------------------------------------------------------------ specification

\* The singletons as the modules construct them; no call is in progress.
Constructed ==
    /\ state = AgentState
    /\ ctx = BrowserContext
    /\ elapsed = 0
    /\ page_url = ""
    /\ pc = [p \in Procs |-> "idle"]
    /\ plan = [p \in Procs |-> <<>>]
    /\ idx = [p \in Procs |-> 0]
    /\ attempt = [p \in Procs |-> 0]
    /\ result = [p \in Procs |-> NoResult]
    /\ cont_result = NoResult
    /\ calls = [p \in Procs |-> <<>>]
    /\ finishes = [p \in Procs |-> 0]
    /\ cont_calls = <<>>
    /\ goal_arg = [p \in Procs |-> ""]
    /\ ticks = 0
    /\ history = <<>>
    /\ goal_text = <<>>
    /\ action_plan = NoPlan
    /\ llm = NotCalled
    /\ router = NoCall
    /\ executed = NoExecute

\* The behaviours of the browser driver a session is checked against.
DriverProfiles == {"flaky", "offline"}

Init == Constructed /\ driver \in DriverProfiles

\* No thread is inside execute_goal.
AllIdle == \A p \in Procs : pc[p] = "idle"

\* The steps of one execute_goal call of thread 1 after its new_execution.
Execution ==
    \/ RetryStep(1)
    \/ StartStep(1)
    \/ ExecSuccess(1)
    \/ ExecFailRetry(1)
    \/ ExecFailLast(1)
    \/ CriticalAbort(1)
    \/ SkipStep(1)
    \/ Finalize(1)
    \/ ExecuteGoalReturn(1)

\* A session of one goal execution, followed by continuations, stop_browser
\* and clock advances.
Next ==
    \/ \E g \in Goals : state.goal = "" /\ NewExecution(1, g)
    \/ \E pl \in PlansFor(driver) : PlanGoal(1, pl)
    \/ RetryStep(1)
    \/ StartStep(1)
    \/ ExecSuccess(1)
    \/ ExecFailRetry(1)
    \/ ExecFailLast(1)
    \/ CriticalAbort(1)
    \/ SkipStep(1)
    \/ Finalize(1)
    \/ ExecuteGoalReturn(1)
    \/ \E req \in ContRequests : AllIdle /\ ContinuationRejected(req)
    \/ \E req \in ContRequests : AllIdle /\ ContinuationSucceeded(req)
    \/ \E req \in ContRequests : AllIdle /\ ContinuationFailed(req)
    \/ AllIdle /\ MarkClosed
    \/ \E d \in TickSizes : AllIdle /\ Tick(d)

Spec == Init /\ [][Next]_vars

\* A session of successive goal executions (the transport serialises the
\* calls), each for another goal than the one before it and archiving that
\* one, with continuations between them.
NextSession ==
    \/ \E g \in Goals \ {state.goal} :
          SessionSteps < MaxSessionSteps /\ NewExecution(1, g)
    \/ \E pl \in PlansFor(driver) :
          SessionSteps + Len(pl) <= MaxSessionSteps /\ PlanGoal(1, pl)
    \/ Execution
    \/ \E req \in ContRequests : AllIdle /\ ContinuationRejected(req)
    \/ \E req \in ContRequests : AllIdle /\ ContinuationSucceeded(req)
    \/ \E req \in ContRequests : AllIdle /\ ContinuationFailed(req)

SpecSession == Init /\ [][NextSession]_vars

\* Goals handed to StateManager.new_execution, the empty goal included.
HistoryGoals == Goals \cup {""}

\* StateManager.new_execution(goal) called on its own.
NewExecutionCall(g) ==
    /\ AllIdle
    /\ history' = new_execution(history, state)
    /\ state' = reset(state, g)
    /\ UNCHANGED <<ctx, elapsed, page_url, pc, plan, idx, attempt, result, cont_result,
                   calls, finishes, cont_calls, goal_arg, driver, ticks, goal_text,
                   action_plan, llm, router, executed>>

\* Any sequence of new_execution calls.
NextHistory == \E g \in HistoryGoals : NewExecutionCall(g)

SpecHistory == Init /\ [][NextHistory]_vars

\* The text a sequence of parts stands for: a URL, a save_as key or a query.
Text(t) ==
    IF \E s \in SiteTexts : t = <<"https://", "www.">> \o s.domain
    THEN (CHOOSE s \in SiteTexts : t = <<"https://", "www.">> \o s.domain).url
    ELSE IF \E s \in SiteTexts : t = <<s.domain[1], "_", "price">>
    THEN (CHOOSE s \in SiteTexts : t = <<s.domain[1], "_", "price">>).price
    ELSE IF \E s \in SiteTexts : t = <<s.domain[1], "_", "product_name">>
    THEN (CHOOSE s \in SiteTexts : t = <<s.domain[1], "_", "product_name">>).product_name
    ELSE IF \E s \in SiteTexts : t = <<s.domain[1], "_", "rating">>
    THEN (CHOOSE s \in SiteTexts : t = <<s.domain[1], "_", "rating">>).rating
    ELSE CHOOSE q \in QueryWords : t = <<q>>

\* [{"action": s.action, "params": s.params} for s in plan.steps], the params
\* with their texts.
StepDicts(steps) ==
    [i \in 1..Len(steps) |->
        [action |-> steps[i].action,
         params |-> [k \in DOMAIN steps[i].params |->
                        IF k \in {"url", "text", "save_as"}
                        THEN Text(steps[i].params[k]) ELSE steps[i].params[k]]]]

\* The compare goals among the goals handed to the planner.
CompareGoals == {ws \in GoalTexts : PatternOf(ws) = "multi_compare"}

\* execute: plan = self.planner.plan(goal) for a goal given by its words;
\* state.set_plan(...).
PlanGoalFromText(p, ws) ==
    /\ pc[p] = "planning"
    /\ goal_text' = ws
    /\ action_plan' = GoalPlanner_plan(ws)
    /\ llm' = LlmOff
    /\ plan' = [plan EXCEPT ![p] = StepDicts(action_plan'.steps)]
    /\ state' = set_plan(state, plan'[p])
    /\ calls' = [calls EXCEPT ![p] = [k \in 1..Len(plan'[p]) |-> 0]]
    /\ idx' = [idx EXCEPT ![p] = 0]
    /\ attempt' = [attempt EXCEPT ![p] = 0]
    /\ pc' = [pc EXCEPT ![p] = "start"]
    /\ UNCHANGED <<ctx, elapsed, page_url, result, cont_result, finishes, cont_calls,
                   goal_arg, driver, ticks, history, router, executed>>

\* The execution of one compare goal in a session whose driver serves every
\* action.
InitCompare == Constructed /\ driver = "online"

NextCompare ==
    \/ \E g \in Goals : state.goal = "" /\ NewExecution(1, g)
    \/ \E ws \in CompareGoals : PlanGoalFromText(1, ws)
    \/ StartStep(1)
    \/ ExecSuccess(1)
    \/ Finalize(1)
    \/ ExecuteGoalReturn(1)

SpecCompare == InitCompare /\ [][NextCompare]_vars

\* The planner takes no part in a browser session: one driver profile is enough.
InitPlanner == Constructed /\ driver = "offline"

\* Goals planned with the LLM planner switched on or off: goals no pattern
\* takes and one a pattern takes.
LlmGoals ==
    {<<W("hello")>>, <<W("search"), W("iphone")>>, <<<<"amazon">>, W("iphone")>>,
     <<W("open"), <<"amazon">>>>}

\* plan_goal(goal) with the collaborator l.
PlanGoalLlm(ws, l) ==
    /\ goal_text' = ws
    /\ action_plan' = plan_goal(ws, l)
    /\ llm' = l
    /\ UNCHANGED <<state, ctx, elapsed, page_url, pc, plan, idx, attempt, result,
                   cont_result, calls, finishes, cont_calls, goal_arg, driver, ticks,
                   history, router, executed>>

\* Any sequence of plan_goal calls, whatever the collaborator does.
NextLlm == \E ws \in LlmGoals : \E l \in LlmReplies : PlanGoalLlm(ws, l)

SpecLlm == InitPlanner /\ [][NextLlm]_vars

\* Any sequence of plan_goal calls.
NextPlanner == \E ws \in GoalTexts : PlanGoalText(ws)

SpecPlanner == InitPlanner /\ [][NextPlanner]_vars

\* The texts handed to the matcher and the router.
MatcherTexts ==
    {<<"/", "browse", " ", "amazon", ".in", " ", "and", " ", "search", " ", "laptop">>,
     <<"/", "browse", " ", "Amazon", ".in">>,
     <<"/", "browse">>,
     <<"open", " ", "amazon", ".in", " ", "and", " ", "search", " ", "laptop">>,
     <<"Open", " ", "amazon", ".in">>,
     <<"go", " ", "to", " ", "amazon", ".in">>,
     <<"navigate", " ", "to", " ", "amazon", ".in">>,
     <<"search", " ", "laptop">>,
     <<"search", " ", "for", " ", "laptop">>,
     <<"search", "ing", " ", "laptop">>,
     <<"re", "search">>,
     <<"look", " ", "for", " ", "laptop">>,
     <<"compare", " ", "price", "s", " ", "for", " ", "laptop">>,
     <<"screenshot">>,
     <<"amazon", ".in">>,
     <<"hello">>,
     <<" ", "hello", " ">>,
     <<" ">>,
     <<>>}

\* match_command(text)
MatchCommand(text) ==
    /\ router' = [NoCall EXCEPT !.op = "match", !.text = text,
                                !.matched = MatchScan(text),
                                !.out.last_tier_used = router.out.last_tier_used]
    /\ UNCHANGED <<state, ctx, elapsed, page_url, pc, plan, idx, attempt, result,
                   cont_result, calls, finishes, cont_calls, goal_arg, driver, ticks,
                   history, goal_text, action_plan, llm, executed>>

\* command_router.route(text), the two collaborators behaving as given.
Route(text, tier1_raises, brain) ==
    /\ router' = [op |-> "route", text |-> text, tier1_raises |-> tier1_raises,
                  brain |-> brain, matched |-> NoCall.matched,
                  out |-> route(text, tier1_raises, brain, router.out.last_tier_used)]
    /\ UNCHANGED <<state, ctx, elapsed, page_url, pc, plan, idx, attempt, result,
                   cont_result, calls, finishes, cont_calls, goal_arg, driver, ticks,
                   history, goal_text, action_plan, llm, executed>>

NextRouter ==
    \/ \E text \in MatcherTexts : MatchCommand(text)
    \/ \E text \in MatcherTexts, tier1_raises \in BOOLEAN, brain \in BrainReplies :
           Route(text, tier1_raises, brain)

SpecRouter == InitPlanner /\ [][NextRouter]_vars

\* The names and the params handed to ActionExecutor.execute directly: the
\* ten primitives and four names without a handler.
ExecuteActions == Handled \cup {"back", "refresh", "hover", "unknown"}
ExecuteParams ==
    {EmptyMap,
     [k \in {"url"} |-> SiteUrl],
     [k \in {"text"} |-> "hello"],
     [k \in {"save_as"} |-> "price"],
     [k \in {"key"} |-> "Tab"],
     [k \in {"ms"} |-> "500"]}

\* action_executor.execute(action, params)
ExecuteCall(action, params) ==
    /\ \E r \in execute(action, params) :
           executed' = [action |-> action, params |-> params,
                        handler |-> HandlerOf(action), raised |-> FALSE, result |-> r]
    /\ UNCHANGED <<state, ctx, elapsed, page_url, pc, plan, idx, attempt, result,
                   cont_result, calls, finishes, cont_calls, goal_arg, driver, ticks,
                   history, goal_text, action_plan, llm, router>>

NextExecutor == \E action \in ExecuteActions, params \in ExecuteParams : ExecuteCall(action, params)

SpecExecutor == InitPlanner /\ [][NextExecutor]_vars

\* A call of the navigate handler alone, over what the driver does at the
\* first page.goto, at the restart and at the second page.goto.
NavigateParams == {EmptyMap, [k \in {"url"} |-> SiteUrl]}

NavigateCall(params, first, restart, second) ==
    /\ executed' = [action |-> "navigate", params |-> params,
                    first |-> first, restart |-> restart, second |-> second,
                    run |-> _navigate_run(params, first, restart, second)]
    /\ UNCHANGED <<state, ctx, elapsed, page_url, pc, plan, idx, attempt, result,
                   cont_result, calls, finishes, cont_calls, goal_arg, driver, ticks,
                   history, goal_text, action_plan, llm, router>>

NextNavigate ==
    \E params \in NavigateParams, first \in GotoOutcomes,
       restart \in RestartOutcomes, second \in GotoOutcomes :
        NavigateCall(params, first, restart, second)

SpecNavigate == InitPlanner /\ [][NextNavigate]_vars

\* An empty-plan return that closes the execution with finish(False).
PlanFailed_Finishes(p) ==
    /\ pc[p] = "planning"
    /\ state' = finish(state, FALSE)
    /\ result' = [result EXCEPT ![p] =
           AgentResult(FALSE, goal_arg[p], "Failed to create action plan", EmptyMap,
                       <<>>, 0, 0, <<"No steps generated for this goal">>, "")]
    /\ pc' = [pc EXCEPT ![p] = "returned"]
    /\ UNCHANGED <<ctx, elapsed, page_url, plan, idx, attempt, cont_result, calls,
                   finishes, cont_calls, goal_arg, driver, ticks,
                   history, goal_text, action_plan, llm, router, executed>>

\* execute: the planner returned a plan without steps; the immediate
\* AgentResult(success=False, message="Failed to create action plan").
PlanFailed(p) ==
    /\ pc[p] = "planning"
    /\ result' = [result EXCEPT ![p] =
           AgentResult(FALSE, goal_arg[p], "Failed to create action plan", EmptyMap,
                       <<>>, 0, 0, <<"No steps generated for this goal">>, "")]
    /\ pc' = [pc EXCEPT ![p] = "returned"]
    /\ UNCHANGED <<state, ctx, elapsed, page_url, plan, idx, attempt, cont_result, calls,
                   finishes, cont_calls, goal_arg, driver, ticks,
                   history, goal_text, action_plan, llm, router, executed>>

\* A session whose planner may also return a plan without steps.
NextEmptyPlan == Next \/ PlanFailed(1)

SpecEmptyPlan == Init /\ [][NextEmptyPlan]_vars

\* Steps whose results carry data: a page value, and the bookkeeping keys
\* typed, key, waited_ms and path.
DataSteps ==
    {Navigate,
     [action |-> "extract", params |-> [k \in {"save_as"} |-> "price"]],
     [action |-> "type", params |-> [k \in {"text"} |-> "hello"]],
     [action |-> "press_key", params |-> [k \in {"key"} |-> "Enter"]],
     [action |-> "wait", params |-> [k \in {"ms"} |-> "500"]],
     [action |-> "screenshot", params |-> [k \in {"name"} |-> "shot"]]}

\* The plans over DataSteps.
DataPlans == UNION {[1..n -> DataSteps] : n \in 1..DataPlanLen}

\* Successive executions of plans over DataSteps against a flaky driver, of
\* DataPlanLen steps in all.
NextData ==
    \/ SessionSteps < DataPlanLen /\ NewExecution(1, "g1")
    \/ \E pl \in DataPlans : SessionSteps + Len(pl) <= DataPlanLen /\ PlanGoal(1, pl)
    \/ Execution

InitData == Constructed /\ driver = "flaky"

SpecData == InitData /\ [][NextData]_vars

\* Two threads of the caller's pool inside execute_goal, each with its own
\* goal, on the one state_manager: no step waits for the other thread.  The
\* first two calls of a session may overlap; a later call starts when no
\* call is inside.
GoalOf(p) == IF p = 1 THEN "g1" ELSE "g2"

\* The plan of each thread's goal: a click and a navigate for the first, a
\* step the executor has no handler for for the second.
Hover == [action |-> "hover", params |-> [k \in {"text"} |-> "Buy"]]

PlanOf(p) == IF p = 1 THEN <<Click, Navigate>> ELSE <<Hover>>

NextOverlap ==
    \/ \E p \in Procs :
          /\ Len(history) < MaxOverlapRuns
          /\ Len(history) = 0 \/ AllIdle
          /\ NewExecution(p, GoalOf(p))
    \/ \E p \in Procs : PlanGoal(p, PlanOf(p))
    \/ \E p \in Procs : RetryStep(p)
    \/ \E p \in Procs : StartStep(p)
    \/ \E p \in Procs : ExecSuccess(p)
    \/ \E p \in Procs : ExecFailRetry(p)
    \/ \E p \in Procs : ExecFailLast(p)
    \/ \E p \in Procs : CriticalAbort(p)
    \/ \E p \in Procs : SkipStep(p)
    \/ \E p \in Procs : Finalize(p)
    \/ \E p \in Procs : ExecuteGoalReturn(p)

InitOverlap == Constructed /\ driver = "offline"

SpecOverlap == InitOverlap /\ [][NextOverlap]_vars

\* ------------------------------------------------------------------ claims

\* The call of thread 1 is inside execute() with its plan set.
InLoop == pc[1] \in {"retry", "start", "exec", "failed", "finalize", "returned"}

\* Plan positions (1-based) of the running call.
Positions == 1..Len(plan[1])

\* The step at position k used up all its attempts without a success.
Exhausted(k) ==
    /\ calls[1][k] = max_retries + 1
    /\ state.steps[k].status \in {FAILED, SKIPPED}

\* C1: in a run of execute() the executor is invoked at most max_retries+1
\* times for every plan step, and never again for a step once an attempt at it
\* has succeeded.
C1_BoundedAttempts ==
    /\ [](InLoop => \A k \in Positions : calls[1][k] <= max_retries + 1)
    /\ [][\A k \in Positions :
            (InLoop /\ InLoop' /\ state.steps[k].status = SUCCESS)
                => calls'[1][k] = calls[1][k]]_vars

C1_Witness ==
    /\ pc[1] = "returned"
    /\ \E k \in Positions :
         calls[1][k] = max_retries + 1 /\ state.steps[k].status = SUCCESS
    /\ \E k \in Positions : Exhausted(k)

\* C2: when execute() returns after a navigate step failed on all its
\* attempts, AgentState.status is "failed" and AgentResult.success is false.
C2_NavigateFailureFails ==
    (pc[1] = "returned"
       /\ \E k \in Positions : plan[1][k].action = "navigate" /\ Exhausted(k))
    => (state.status = "failed" /\ ~result[1].success)

\* C3: once a navigate step has exhausted its attempts, every later step of
\* the plan stays PENDING and is never passed to the executor.
C3_AbortLeavesRestPending ==
    InLoop =>
        \A k \in Positions :
            (plan[1][k].action = "navigate" /\ Exhausted(k))
                => \A j \in Positions :
                       j > k => (state.steps[j].status = PENDING /\ calls[1][j] = 0)

C3_Witness ==
    /\ pc[1] = "returned"
    /\ \E k \in Positions :
         /\ plan[1][k].action = "navigate" /\ Exhausted(k)
         /\ k > 1 /\ k < Len(plan[1])

\* C4: a step that is not a navigate step and fails on all its attempts ends
\* SKIPPED with error "Failed after retries", and the loop goes on to the next
\* step of the plan, which is executed before execute() returns.
C4_SkipAndContinue ==
    InLoop =>
        \A k \in Positions :
            (plan[1][k].action # "navigate" /\ Exhausted(k))
                => \/ /\ pc[1] = "failed" /\ idx[1] = k - 1
                      /\ state.steps[k].status = FAILED
                   \/ /\ state.steps[k].status = SKIPPED
                      /\ state.steps[k].error = "Failed after retries"
                      /\ k < Len(plan[1]) =>
                            /\ idx[1] >= k \/ pc[1] \in {"finalize", "returned"}
                            /\ state.steps[k + 1].status # PENDING
                                 \/ (pc[1] = "start" /\ idx[1] = k)
                            /\ pc[1] = "returned" => calls[1][k + 1] >= 1

C4_Witness ==
    /\ pc[1] = "returned"
    /\ \E k \in Positions :
         /\ plan[1][k].action # "navigate" /\ Exhausted(k)
         /\ k < Len(plan[1]) /\ calls[1][k + 1] >= 1

\* Step records of the live AgentState with a status of the given set.
WithStatus(statuses) == {k \in 1..Len(state.steps) : state.steps[k].status \in statuses}

\* C5: the success flag execute() returns, and the final status being
\* "success", hold exactly when no step is FAILED or at least 80% of the steps
\* are SUCCESS or SKIPPED.
C5_SuccessRule ==
    pc[1] = "returned" =>
        LET failed == Cardinality(WithStatus({FAILED}))
            completed == Cardinality(WithStatus({SUCCESS, SKIPPED}))
            rule == failed = 0 \/ 10 * completed >= 8 * state.total_steps
        IN  /\ result[1].success = rule
            /\ (state.status = "success") = rule
            /\ state.status \in {"success", "failed"}

\* The 80% threshold decides: a step is FAILED and the run still succeeds.
C5_Witness ==
    /\ pc[1] = "returned"
    /\ WithStatus({FAILED}) # {}
    /\ result[1].success

\* Steps execute() still has to take, at most: a variant of the call.
StepCost == 3 * (max_retries + 1)

PcRank(p) ==
    CASE pc[p] = "retry" -> 3
      [] pc[p] = "start" -> 2
      [] pc[p] = "exec" -> 1
      [] OTHER -> 0

Remaining(p) ==
    CASE pc[p] = "planning" -> 2 + (MaxPlanLen + LongPlanLen) * StepCost
      [] pc[p] \in {"retry", "start", "exec", "failed"} ->
            2 + (Len(plan[p]) - idx[p] - 1) * StepCost
              + (max_retries - attempt[p]) * 3 + PcRank(p)
      [] pc[p] = "finalize" -> 1
      [] OTHER -> 0

\* The call of thread 1 has not returned its AgentResult yet.
Running == pc[1] \in {"planning", "retry", "start", "exec", "failed", "finalize"}

\* C6: execute() terminates with an AgentResult whatever the attempts yield:
\* while the call runs it always has a next step to take, no step leaves the
\* call other than by returning, and every step lowers a bounded variant.
C6_Terminates ==
    /\ [](Running => ENABLED Next)
    /\ [][Running => (pc'[1] # "idle" /\ Remaining(1)' < Remaining(1)
                        /\ Remaining(1)' >= 0)]_vars

C6_Witness ==
    /\ pc[1] = "returned"
    /\ \E k \in Positions : Exhausted(k) /\ plan[1][k].action # "navigate"
    /\ \E k \in Positions : Exhausted(k) /\ plan[1][k].action = "navigate"

\* C7: within one execute() call AgentState.status moves only
\* planning -> executing -> success | failed, and a terminal status does not
\* change any more before the call returns.
C7_StatusOneShot ==
    [][(pc[1] # "idle" /\ pc'[1] # "idle" /\ state'.status # state.status)
         => <<state.status, state'.status>> \in
               {<<"planning", "executing">>, <<"executing", "success">>,
                <<"executing", "failed">>}]_vars

RECURSIVE SumRetries(_)
SumRetries(records) ==
    IF records = <<>> THEN 0
    ELSE Head(records).retry_count + SumRetries(Tail(records))

\* C8: total_retries equals the sum of retry_count over the step records of
\* the current execution.
C8_RetriesAddUp == state.total_retries = SumRetries(state.steps)

\* A second execution, retried, after a first one that had retries.
C8_Witness ==
    /\ ctx.last_goal # ""
    /\ pc[1] = "returned"
    /\ state.total_retries = max_retries
    /\ result[1].success

\* C9: get_progress() reports completed = steps SUCCESS or SKIPPED, failed =
\* steps FAILED, percent = integer part of 100*completed/total_steps (0 when
\* total_steps is 0); so 0 <= percent <= 100 and completed + failed <= total_steps.
C9_Progress ==
    LET progress == get_progress(state)
        completed == Cardinality(WithStatus({SUCCESS, SKIPPED}))
        failed == Cardinality(WithStatus({FAILED}))
    IN  /\ progress.completed = completed
        /\ progress.failed = failed
        /\ progress.percent =
              IF state.total_steps > 0 THEN (100 * completed) \div state.total_steps
              ELSE 0
        /\ progress.percent >= 0 /\ progress.percent <= 100
        /\ completed + failed <= state.total_steps

\* C10: execute_continuation called without an active BrowserContext returns
\* success = false with a message, invokes the executor not at all and changes
\* neither the BrowserContext nor the AgentState.
C10_RejectedContinuation ==
    [][(~is_active(ctx, elapsed) /\ cont_result' # NoResult
          /\ cont_result' # cont_result)
         => /\ ~cont_result'.success
            /\ cont_result'.message # ""
            /\ cont_calls' = <<>>
            /\ ctx' = ctx /\ elapsed' = elapsed
            /\ state' = state
            /\ page_url' = page_url]_vars

\* A continuation was rejected because the open session had gone stale.
C10_Witness ==
    /\ cont_result.message = "No active browser session"
    /\ ctx.is_open
    /\ elapsed >= CONTEXT_TIMEOUT_SECONDS

\* The executor actions execute_continuation can pass on.
ContinuationActions == {executor_action(req) : req \in ContRequests}

\* C11: for each of the five continuation tokens the action handed to
\* ActionExecutor.execute has a handler; it is never answered "Unknown action".
C11_ContinuationHandled ==
    cont_calls # <<>> =>
        /\ cont_calls[1] \in Handled
        /\ \A k \in 1..Len(cont_result.errors) : cont_result.errors[k] \notin UnknownActionErrors

\* C12: an accepted continuation passes its mapped action to the executor
\* exactly once, never retries a failed action, and makes at most one more
\* executor call, the confirmation screenshot after a success.
C12_SingleAttempt ==
    (cont_result # NoResult /\ cont_result.message # "No active browser session") =>
        /\ cont_calls # <<>>
        /\ cont_calls[1] \in ContinuationActions
        /\ IF cont_result.success
           THEN Len(cont_calls) = 2 /\ cont_calls[2] = "screenshot"
           ELSE Len(cont_calls) = 1

\* A continuation whose action the driver failed.
C12_Witness ==
    /\ cont_calls = <<"scroll">>
    /\ ~cont_result.success
    /\ cont_result.errors = <<"Scroll failed">>

\* C13: execute_continuation leaves the AgentState and the history list as
\* they were, whether it is rejected, its action fails or its action succeeds.
C13_ContinuationKeepsAgentState ==
    [][cont_result' # NoResult => (state' = state /\ history' = history)]_vars

\* A continuation failed in a session that has an archived execution.
C13_Witness ==
    /\ cont_calls # <<>>
    /\ ~cont_result.success
    /\ history # <<>>
    /\ state.steps # <<>>

\* C14: is_active() is true exactly when is_open is true and fewer than 300
\* seconds have passed since the last update; at exactly 300 seconds it is false.
C14_ActiveIffOpenAndRecent ==
    is_active(ctx, elapsed) <=> (ctx.is_open /\ elapsed < CONTEXT_TIMEOUT_SECONDS)

C14_Witness ==
    /\ ctx.is_open
    /\ elapsed = CONTEXT_TIMEOUT_SECONDS
    /\ ~is_active(ctx, elapsed)

\* C15, as stated: once the context has been updated, is_active() is false
\* after more than 300 seconds and true just under 300 seconds, whatever
\* is_open is.
C15_ActiveWhateverOpen ==
    ctx.last_action_time =>
        /\ elapsed > CONTEXT_TIMEOUT_SECONDS => ~is_active(ctx, elapsed)
        /\ elapsed = CONTEXT_TIMEOUT_SECONDS - 1 => is_active(ctx, elapsed)

\* C15, amended: is_active() is false after more than 300 seconds whatever
\* is_open is; just under 300 seconds it is true exactly when is_open is true,
\* so it is false after mark_closed.
C15_ActiveWhileOpen ==
    ctx.last_action_time =>
        /\ elapsed > CONTEXT_TIMEOUT_SECONDS => ~is_active(ctx, elapsed)
        /\ elapsed = CONTEXT_TIMEOUT_SECONDS - 1 => (is_active(ctx, elapsed) <=> ctx.is_open)

\* The session was closed and its last update is just under 300 seconds old.
C15_Witness ==
    /\ ctx.last_action_time
    /\ ~ctx.is_open
    /\ elapsed = CONTEXT_TIMEOUT_SECONDS - 1
    /\ ~is_active(ctx, elapsed)

\* C16: the BrowserContext is updated (is_open set, last_action_time
\* refreshed) when execute_goal returns and after every continuation that
\* reached the executor, whether the action succeeded or failed.
C16_ContextRefreshed ==
    [][((pc[1] = "returned" /\ pc'[1] = "idle") \/ cont_calls' # <<>>)
         => (ctx'.is_open /\ ctx'.last_action_time /\ elapsed' = 0)]_vars

\* C17: the history never holds more than 10 summaries; a new_execution call
\* appends the summary of the execution it replaces exactly when that
\* execution had a goal, and drops the oldest summary when the list is full.
C17_HistoryRing ==
    /\ [](Len(history) <= HistoryLimit)
    /\ [][LET n == Len(history)
              m == Len(history')
          IN  IF state.goal = "" THEN history' = history
              ELSE /\ m = (IF n < HistoryLimit THEN n + 1 ELSE HistoryLimit)
                   /\ history'[m] = get_summary(state)
                   /\ \A i \in 1..(m - 1) : history'[i] = history[i + (n + 1 - m)]]_vars

\* The list is full and holds executions of both goals, the oldest of them
\* different from the newest.
C17_Witness ==
    /\ Len(history) = HistoryLimit
    /\ history[1].goal # history[HistoryLimit].goal
    /\ state.goal # ""

\* C18: right after new_execution(goal) the AgentState holds the new goal,
\* status "planning", no steps, data, screenshots or errors and zero
\* counters; the BrowserContext is as it was before the call.
C18_ResetOnNewExecution ==
    [][(pc[1] = "idle" /\ pc'[1] = "planning")
         => /\ state'.status = "planning"
            /\ state'.goal = goal_arg'[1]
            /\ state'.steps = <<>>
            /\ state'.extracted_data = EmptyMap
            /\ state'.screenshots = <<>>
            /\ state'.errors = <<>>
            /\ state'.total_steps = 0
            /\ state'.current_step = 0
            /\ state'.total_retries = 0
            /\ ctx' = ctx /\ elapsed' = elapsed]_vars

\* A new execution has just replaced one that left errors, retries and data.
C18_Witness ==
    /\ pc[1] = "planning"
    /\ history # <<>>
    /\ history[Len(history)].errors # <<>>
    /\ history[Len(history)].total_retries > 0
    /\ ctx.is_open
    /\ state.goal # history[Len(history)].goal

\* The last step of a plan.
LastStep(pl) == pl.steps[Len(pl.steps)]

\* C19: whenever the goal handed to GoalPlanner.plan matches one of the
\* patterns (open-and-search with a short name or a domain, search-on-site,
\* site-search, price check, multi-site compare, simple open), the plan
\* returned has steps and its last step is a screenshot step.
C19_LastStepScreenshot ==
    PatternOf(goal_text) # "none" =>
        /\ action_plan.steps # <<>>
        /\ LastStep(action_plan).action = "screenshot"

\* A compare goal over two sites was planned and its plan ends in a screenshot.
C19_Witness ==
    /\ PatternOf(goal_text) = "multi_compare"
    /\ Len(action_plan.context.sites) = 2
    /\ LastStep(action_plan).action = "screenshot"

\* The query (or product) text the pattern that takes the goal captures.
QueryOf(ws) ==
    LET kind == PatternOf(ws)
    IN  CASE kind = "short" -> short_match(ws).query
          [] kind = "compound" -> compound_match(ws).query
          [] kind = "site_search" -> site_search_match(ws).query
          [] kind = "quick_search" -> quick_search_match(ws).query
          [] kind = "price" -> price_match(ws).query
          [] kind = "multi_compare" -> multi_compare_match(ws).query
          [] OTHER -> <<>>

\* The configuration of the domain has a submit selector.
HasSubmitSelector(domain) ==
    /\ domain \in DOMAIN SITE_SEARCH_CONFIG
    /\ "submit_selector" \in DOMAIN SITE_SEARCH_CONFIG[domain]
    /\ SITE_SEARCH_CONFIG[domain].submit_selector # None

\* The eight steps from step i on are navigate, wait, wait_for(search box),
\* type(query), click(submit) or press_key(Enter), wait_for, wait, screenshot.
IsSearchSequence(steps, i, query) ==
    /\ i + 7 <= Len(steps)
    /\ steps[i].action = "navigate"
    /\ steps[i + 1].action = "wait"
    /\ steps[i + 2].action = "wait_for"
    /\ steps[i + 3].action = "type"
    /\ steps[i + 3].params.text = query
    /\ steps[i + 3].params.selector = steps[i + 2].params.selector
    /\ LET domain == SiteDomain(steps[i].params.url)
       IN  IF HasSubmitSelector(domain)
           THEN /\ steps[i + 4].action = "click"
                /\ steps[i + 4].params.selector = SITE_SEARCH_CONFIG[domain].submit_selector
           ELSE /\ steps[i + 4].action = "press_key"
                /\ steps[i + 4].params.key = "Enter"
    /\ steps[i + 5].action = "wait_for"
    /\ steps[i + 6].action = "wait"
    /\ steps[i + 7].action = "screenshot"

\* C20: a site-search plan is exactly the search sequence; a price-check plan
\* starts with it; in a compare plan every sub-plan (each starts at a navigate
\* step) starts with it.  The submit step is a click exactly when the
\* configuration of the site navigated to has a submit selector and
\* press_key(Enter) otherwise, unknown domains included, and the type step
\* carries the query of the goal.
C20_SearchSequence ==
    LET kind == PatternOf(goal_text)
        steps == action_plan.steps
        query == QueryOf(goal_text)
    IN  /\ kind \in {"short", "compound", "site_search", "quick_search"} =>
              Len(steps) = 8 /\ IsSearchSequence(steps, 1, query)
        /\ kind \in {"compound", "site_search"} =>
              SiteDomain(steps[1].params.url) =
                  SiteDomain(IF kind = "compound" THEN compound_match(goal_text).site
                             ELSE site_search_match(goal_text).site)
        /\ kind = "price" => Len(steps) > 8 /\ IsSearchSequence(steps, 1, query)
        /\ kind = "multi_compare" =>
              /\ IsSearchSequence(steps, 1, query)
              /\ \A i \in 1..Len(steps) :
                    steps[i].action = "navigate" => IsSearchSequence(steps, i, query)
              /\ Cardinality({i \in 1..Len(steps) : steps[i].action = "navigate"})
                     = Len(action_plan.context.sites)

\* A compare plan with a sub-plan that clicks the submit button and one, for
\* an unknown domain, that presses Enter.
C20_Witness ==
    /\ PatternOf(goal_text) = "multi_compare"
    /\ \E i, j \in 1..Len(action_plan.steps) :
          /\ action_plan.steps[i].action = "press_key"
          /\ action_plan.steps[j].action = "click"
          /\ action_plan.steps[j - 1].action = "type"
          /\ action_plan.steps[j - 1].params.text # <<>>

\* The positions of the steps of sub-plan n of a compare plan: from its
\* navigate step up to the next one.
SubPlanOf(steps, i) == Cardinality({k \in 1..i : steps[k].action = "navigate"})

\* The save_as keys of the extract steps of sub-plan n.
SaveKeys(steps, n) ==
    {steps[i].params.save_as :
        i \in {k \in 1..Len(steps) : steps[k].action = "extract" /\ SubPlanOf(steps, k) = n}}

\* C21: in a compare plan the extract steps of two different sites (the list
\* of sites is de-duplicated, so their domains differ) never save under the
\* same key.
C21_DistinctPrefixes ==
    PatternOf(goal_text) = "multi_compare" =>
        LET steps == action_plan.steps
            sites == action_plan.context.sites
        IN  \A m, n \in 1..Len(sites) :
                m # n => /\ sites[m] # sites[n]
                         /\ SaveKeys(steps, m) \cap SaveKeys(steps, n) = {}

\* The keys of extracted_data the step record at position k wrote: those of
\* its result data that complete_step copies.
WrittenKeys(s, k) ==
    IF s.steps[k].status = SUCCESS
    THEN (DOMAIN s.steps[k].result_data) \ BookkeepingKeys
    ELSE {}

\* C22: while a compare plan is executed, no key of extracted_data written by
\* a step of one site's sub-plan is written by a step of another site's
\* sub-plan.
C22_NoCrossSiteOverwrite ==
    PatternOf(goal_text) = "multi_compare" =>
        \A i, j \in 1..Len(state.steps) :
            SubPlanOf(state.steps, i) # SubPlanOf(state.steps, j) =>
                WrittenKeys(state, i) \cap WrittenKeys(state, j) = {}

\* The one-step plan that opens the default search engine.
IsFallbackPlan(pl) ==
    /\ Len(pl.steps) = 1
    /\ pl.steps[1].action = "navigate"
    /\ pl.steps[1].params = [url |-> <<"https://", "www.", "google", ".com">>]

\* C23: after a plan call for a goal no pattern takes, with the LLM planner
\* disabled, raising, replying without a JSON object, with one json.loads
\* rejects, or with an object without steps, the plan is the one-step fallback
\* plan; and no plan call returns a plan without steps.
C23_FallbackPlan ==
    /\ (/\ llm # NotCalled
        /\ PatternOf(goal_text) = "none"
        /\ \/ ~llm.use_llm
           \/ llm.outcome \in {"raises", "no_json", "malformed"}
           \/ llm.outcome = "object" /\ llm.steps = <<>>)
       => IsFallbackPlan(action_plan)
    /\ llm # NotCalled => action_plan.steps # <<>>

\* The LLM planner was on and replied with an object without steps to a goal
\* no pattern takes.
C23_Witness ==
    /\ llm.use_llm
    /\ llm.outcome = "object"
    /\ llm.steps = <<>>
    /\ PatternOf(goal_text) = "none"
    /\ IsFallbackPlan(action_plan)

\* navigate, click, type, press_key, scroll, wait_for, wait, extract, screenshot
Vocabulary ==
    {"navigate", "click", "type", "press_key", "scroll", "wait_for", "wait",
     "extract", "screenshot"}

\* C24: every step of a plan a plan call returned has an action of the
\* primitive vocabulary.
C24_PlanVocabulary ==
    \A i \in 1..Len(action_plan.steps) : action_plan.steps[i].action \in Vocabulary

\* What the tiers of the last route call amount to.
Tier1Hit ==
    /\ Strip(router.text) # <<>>
    /\ ~router.tier1_raises
    /\ match(router.text) # NoCommand

Tier3Hit ==
    /\ Strip(router.text) # <<>>
    /\ ~Tier1Hit
    /\ ~router.brain.raises
    /\ router.brain.value \notin {NoCommand, EmptyMap}

\* C25: route never raises and resolves the tiers in order: it returns
\* (command, 1) exactly when the keyword matcher returns a command without
\* raising; otherwise it consults the LLM collaborator and returns
\* (result, 3) exactly when that returns a non-empty result without raising;
\* otherwise it returns (None, 0).  Empty or blank text returns (None, 0)
\* with no tier consulted, and the command is None exactly when the tier is 0.
C25_TiersInOrder ==
    router.op = "route" =>
        /\ ~router.out.raised
        /\ router.out.tier \in {0, 1, 3}
        /\ router.out.tier = 1 <=> Tier1Hit
        /\ router.out.tier = 1 => router.out.command = match(router.text)
        /\ router.out.tier = 3 <=> Tier3Hit
        /\ router.out.tier = 3 => router.out.command = router.brain.value
        /\ router.out.command = NoCommand <=> router.out.tier = 0
        /\ router.out.consulted =
               IF Strip(router.text) = <<>> THEN <<>>
               ELSE IF Tier1Hit THEN <<1>> ELSE <<1, 3>>

\* The keyword matcher raised and the LLM collaborator resolved the text.
C25_Witness ==
    /\ router.op = "route"
    /\ router.tier1_raises
    /\ router.out.tier = 3
    /\ router.out.command = [action |-> "general_chat"]
    /\ router.out.consulted = <<1, 3>>

\* C26: for a text that starts with "/browse " followed by a non-empty T,
\* match returns the action browser_agent whose goal is "open " followed by T.
C26_BrowseGoalOpens ==
    /\ router.op = "match"
    /\ StartsWith(_normalize_text(router.text), <<"/", "browse", " ">>)
    => router.matched.command =
           [action |-> "browser_agent",
            goal |-> <<"open", " ">> \o Strip(AfterBrowse(Strip(router.text)))]

\* C27: a command that match produces from the entry a trigger selected comes
\* from the entry's extraction pattern matching the text, when it has one:
\* no template is filled from a guess.
C27_NoFallbackGuess ==
    /\ router.op = "match"
    /\ router.matched.trigger # <<>>
    /\ PatternNamed(router.matched.cmd_name).extract_pattern
    => extract_pattern(router.matched.cmd_name, _normalize_text(router.text)).matched

\* C28: execute called with a name that has no handler returns an
\* ActionResult with success false, the error naming the unknown action, the
\* given name in its action field and a duration; no handler is invoked and
\* nothing is raised.
C28_UnknownActionFails ==
    executed.action \notin Handled \cup {None} =>
        /\ ~executed.raised
        /\ ~executed.result.success
        /\ executed.result.error = UnknownAction(executed.action)
        /\ executed.result.action = executed.action
        /\ executed.result.duration_ms = Elapsed
        /\ executed.handler = None
        /\ executed.result.data = EmptyMap

\* execute was called with the name hover and url params.
C28_Witness ==
    /\ executed.action = "hover"
    /\ executed.params = [k \in {"url"} |-> SiteUrl]
    /\ executed.result.error = "Unknown action: hover"

\* C29: when the planner returns a plan without steps, execute() returns an
\* AgentResult with success false at once: the executor is not invoked,
\* set_plan and finish are not called, and the AgentState is as new_execution
\* left it (status planning, no steps).
C29_EmptyPlanFails ==
    pc[1] = "returned" /\ plan[1] = <<>> =>
        /\ ~result[1].success
        /\ result[1].goal = goal_arg[1]
        /\ result[1].steps_total = 0
        /\ calls[1] = <<>>
        /\ finishes[1] = 0
        /\ state = reset(state, goal_arg[1])
        /\ state.status = "planning"
        /\ state.steps = <<>>
        /\ state.total_steps = 0

\* execute() has returned the planning failure.
C29_Witness ==
    /\ pc[1] = "returned"
    /\ result[1].message = "Failed to create action plan"
    /\ result[1].errors = <<"No steps generated for this goal">>
    /\ state.status = "planning"

\* C30: from set_plan until the next reset total_steps does not change and
\* equals the number of step records, the record at position i has
\* step_index i, and no operation of the execution adds, removes or reorders
\* records.
C30_PlanFixed ==
    /\ [](/\ state.total_steps = Len(state.steps)
          /\ \A i \in 1..Len(state.steps) : state.steps[i].step_index = i - 1)
    /\ [][(pc[1] # "planning" /\ ~(pc[1] = "idle" /\ pc'[1] = "planning"))
            => /\ state'.total_steps = state.total_steps
               /\ Len(state'.steps) = Len(state.steps)
               /\ \A i \in 1..Len(state.steps) :
                      /\ state'.steps[i].step_index = state.steps[i].step_index
                      /\ state'.steps[i].action = state.steps[i].action
                      /\ state'.steps[i].params = state.steps[i].params]_vars

\* A second execution whose step succeeded after a retry.
C30_Witness ==
    /\ history # <<>>
    /\ state.total_steps = 1
    /\ Len(state.steps) = 1
    /\ state.steps[1].retry_count > 0
    /\ state.steps[1].status = SUCCESS

\* The call of thread 1 resets the AgentState in this step.
ResetStep == pc[1] = "idle" /\ pc'[1] = "planning"

\* C31: between two resets the key set of extracted_data only grows: a
\* successful complete_step merges the keys of the step's data other than
\* path, waited_ms, typed and key; a failed completion and every other
\* operation leave extracted_data as it is.
C31_DataOnlyGrows ==
    [][~ResetStep =>
        /\ DOMAIN state.extracted_data \subseteq DOMAIN state'.extracted_data
        /\ (pc[1] = "exec" /\ pc'[1] \in {"start", "finalize"}) =>
              LET data == state'.steps[idx[1] + 1].result_data
                  kept == (DOMAIN data) \ {"path", "waited_ms", "typed", "key"}
              IN  /\ DOMAIN state'.extracted_data = DOMAIN state.extracted_data \cup kept
                  /\ \A k \in kept : state'.extracted_data[k] = data[k]
                  /\ \A k \in DOMAIN state.extracted_data \ kept :
                         state'.extracted_data[k] = state.extracted_data[k]
        /\ ~(pc[1] = "exec" /\ pc'[1] \in {"start", "finalize"}) =>
              state'.extracted_data = state.extracted_data]_vars

\* An extract step stored its value, a type step that followed it succeeded
\* and its typed text was not merged.
C31_Witness ==
    /\ Len(state.steps) = 2
    /\ state.steps[1].action = "extract" /\ state.steps[1].status = SUCCESS
    /\ state.steps[2].action = "type" /\ state.steps[2].status = SUCCESS
    /\ "typed" \in DOMAIN state.steps[2].result_data
    /\ DOMAIN state.extracted_data = {"price", "raw_value"}

\* The record at position k goes from status a to status b in this step.
Moves(k, a, b) ==
    /\ k <= Len(state.steps) /\ k <= Len(state'.steps)
    /\ state.steps[k].status = a
    /\ state'.steps[k].status = b

\* C32: every RETRYING -> RUNNING transition of a step is taken in a state
\* where the step's retry_count is strictly less than max_retries.
C32_RetryBelowLimit ==
    [][\A k \in 1..Len(state.steps) :
           Moves(k, RETRYING, RUNNING) => state.steps[k].retry_count < max_retries]_vars

\* C32, amended: a RETRYING -> RUNNING transition is taken with retry_count
\* between 1 and max_retries, the retry it begins already counted; it is the
\* RUNNING -> RETRYING transition that is taken only below max_retries.
C32_RetryWithinLimit ==
    [][\A k \in 1..Len(state.steps) :
           /\ Moves(k, RETRYING, RUNNING) =>
                  /\ 1 <= state.steps[k].retry_count
                  /\ state.steps[k].retry_count <= max_retries
                  /\ state'.steps[k].retry_count = state.steps[k].retry_count
           /\ Moves(k, RUNNING, RETRYING) =>
                  /\ state.steps[k].retry_count < max_retries
                  /\ state'.steps[k].retry_count = state.steps[k].retry_count + 1]_vars

\* The last permitted attempt of a step is running.
C32_Witness ==
    /\ pc[1] = "exec"
    /\ state.steps[idx[1] + 1].status = RUNNING
    /\ state.steps[idx[1] + 1].retry_count = max_retries

\* The status changes of a StepRecord the step state machine has.
StepTransitions ==
    {<<PENDING, RUNNING>>, <<RUNNING, SUCCESS>>, <<RUNNING, RETRYING>>,
     <<RETRYING, RUNNING>>, <<RUNNING, FAILED>>, <<FAILED, SKIPPED>>}

\* C33: during execute() every status change of a StepRecord is one of
\* PENDING->RUNNING, RUNNING->SUCCESS, RUNNING->RETRYING, RETRYING->RUNNING,
\* RUNNING->FAILED, FAILED->SKIPPED; FAILED is entered only after the last
\* permitted attempt failed, SKIPPED only from FAILED and only for a step that
\* is not a navigate, and a step in SUCCESS or SKIPPED keeps its status.
C33_StepStateMachine ==
    [][\A k \in 1..Len(state.steps) :
           (k <= Len(state'.steps) /\ state'.steps[k].status # state.steps[k].status) =>
               /\ <<state.steps[k].status, state'.steps[k].status>> \in StepTransitions
               /\ state'.steps[k].status = FAILED =>
                      /\ attempt[1] = max_retries
                      /\ state.steps[k].retry_count = max_retries
                      /\ calls'[1][k] = max_retries + 1
               /\ state'.steps[k].status = SKIPPED =>
                      /\ state.steps[k].status = FAILED
                      /\ state.steps[k].action # "navigate"
               /\ state.steps[k].status \notin {SUCCESS, SKIPPED}]_vars

\* A click was skipped after its last attempt failed, the click after it
\* succeeded on a retry, and the navigate after that failed for good.
C33_Witness ==
    /\ Len(state.steps) = 3
    /\ state.steps[1].status = SKIPPED /\ state.steps[1].action = "click"
    /\ state.steps[2].status = SUCCESS /\ state.steps[2].retry_count > 0
    /\ state.steps[3].status = FAILED /\ state.steps[3].action = "navigate"

\* C34: the steps are executed in plan order, one at a time: a step is not
\* started, and the executor not called for it, before every step ahead of
\* it has reached SUCCESS or SKIPPED, and at most one StepRecord is RUNNING
\* or RETRYING.
C34_PlanOrder ==
    /\ \A j \in 1..Len(state.steps) :
           (\/ state.steps[j].status # PENDING
            \/ (j <= Len(calls[1]) /\ calls[1][j] > 0))
           => \A i \in 1..(j - 1) : state.steps[i].status \in {SUCCESS, SKIPPED}
    /\ CountStatus(state, {RUNNING, RETRYING}) <= 1

\* The third step is retrying after the first was skipped and the second
\* succeeded.
C34_Witness ==
    /\ Len(state.steps) = 3
    /\ state.steps[1].status = SKIPPED
    /\ state.steps[2].status = SUCCESS
    /\ state.steps[3].status = RETRYING
    /\ calls[1][3] > 0

\* C35: a step that fails all of its max_retries + 1 attempts adds exactly
\* one entry "Step i: <error of the last attempt>" to AgentState.errors, a
\* failed attempt that is followed by a retry adds none, and when execute()
\* returns, errors has as many entries as there are FAILED and SKIPPED steps.
FailedErrors(k) ==
    {r.error : r \in {x \in DriverResults(driver, state.steps[k].action,
                                          state.steps[k].params) : ~x.success}}

C35_ErrorsLogged ==
    /\ [](pc[1] = "returned" /\ plan[1] # <<>> =>
            /\ Len(state.errors) = CountStatus(state, {FAILED, SKIPPED})
            /\ result[1].errors = state.errors)
    /\ [][~ResetStep =>
            /\ \A k \in 1..Len(state.steps) :
                   Moves(k, RUNNING, FAILED) =>
                       /\ k = idx[1] + 1
                       /\ state'.steps[k].error \in FailedErrors(k)
                       /\ state'.steps[k].error # ""
                       /\ state'.errors =
                              Append(state.errors, <<k - 1, state'.steps[k].error>>)
            /\ (pc[1] = "exec" /\ pc'[1] = "retry") => state'.errors = state.errors
            /\ (state'.errors # state.errors) =>
                   Moves(idx[1] + 1, RUNNING, FAILED)]_vars

\* The run returned with two entries: the click at index 0 was skipped and
\* the navigate at index 1 failed, its last attempt after a restart.
C35_Witness ==
    /\ pc[1] = "returned"
    /\ Len(state.steps) = 2
    /\ state.steps[1].status = SKIPPED
    /\ state.steps[2].status = FAILED
    /\ state.steps[2].retry_count = max_retries
    /\ Len(state.errors) = 2
    /\ state.errors[1][1] = 0
    /\ state.errors[2] = <<1, "Browser restart failed">>

\* C37: when no navigate step of the plan exhausts its attempts, execute()
\* returns success true with steps_completed equal to steps_total, however
\* many other steps failed (each is SKIPPED and counts as completed, the
\* failed count is 0); the 80% threshold decides the outcome only in runs
\* where a navigate step failed.
NavigateFailed ==
    \E k \in 1..Len(state.steps) :
        state.steps[k].action = "navigate" /\ state.steps[k].status = FAILED

C37_SkipsCountAsDone ==
    (pc[1] = "returned" /\ plan[1] # <<>>) =>
        /\ ~NavigateFailed =>
               /\ result[1].success
               /\ state.status = "success"
               /\ result[1].steps_completed = result[1].steps_total
               /\ result[1].steps_total = Len(plan[1])
               /\ get_progress(state).failed = 0
               /\ CountStatus(state, {SUCCESS, SKIPPED}) = Len(state.steps)
        /\ (get_progress(state).failed # 0) =>
               /\ NavigateFailed
               /\ result[1].success =
                      MeetsThreshold(result[1].steps_completed, result[1].steps_total)

\* A run of three steps returned success: the navigate succeeded and both
\* clicks after it were skipped.
C37_Witness ==
    /\ pc[1] = "returned"
    /\ Len(state.steps) = 3
    /\ state.steps[1].action = "navigate" /\ state.steps[1].status = SUCCESS
    /\ state.steps[2].status = SKIPPED
    /\ state.steps[3].status = SKIPPED
    /\ result[1].success
    /\ result[1].steps_completed = 3

\* C38: when execute() returns after running a plan, no StepRecord is RUNNING
\* or RETRYING, at most one StepRecord is FAILED and its action is navigate,
\* and a StepRecord is PENDING only if it comes after that FAILED step.
C38_RecordsAtReturn ==
    (pc[1] = "returned" /\ plan[1] # <<>>) =>
        /\ CountStatus(state, {RUNNING, RETRYING}) = 0
        /\ CountStatus(state, {FAILED}) <= 1
        /\ \A k \in 1..Len(state.steps) :
               /\ state.steps[k].status = FAILED => state.steps[k].action = "navigate"
               /\ state.steps[k].status = PENDING =>
                      \E j \in 1..(k - 1) : state.steps[j].status = FAILED

\* The run returned with the first step skipped, the navigate after it
\* FAILED and the last step never started.
C38_Witness ==
    /\ pc[1] = "returned"
    /\ Len(state.steps) = 3
    /\ state.steps[1].status = SKIPPED
    /\ state.steps[2].status = FAILED /\ state.steps[2].action = "navigate"
    /\ state.steps[3].status = PENDING
    /\ calls[1][3] = 0

\* C39: execute_goal marks the BrowserContext open and fresh whatever the
\* outcome of the run: right after any execute_goal call returns, also one
\* aborted because its first navigate failed on every attempt,
\* is_active() is true, and a continuation issued within 300 seconds of it
\* passes the active-session check.
GoalReturns == pc[1] = "returned" /\ pc'[1] = "idle"

Rejection ==
    /\ cont_result' # cont_result
    /\ cont_result'.message = "No active browser session"

C39_ActiveAfterGoal ==
    /\ [][GoalReturns =>
            /\ ctx'.is_open
            /\ ctx'.last_action_time
            /\ elapsed' = 0
            /\ is_active(ctx', elapsed')]_vars
    /\ [][Rejection =>
            \/ ~ctx.is_open
            \/ ~ctx.last_action_time
            \/ elapsed >= CONTEXT_TIMEOUT_SECONDS]_vars

\* The only step of the run, a navigate, failed on every attempt, no page
\* was ever loaded, and a continuation issued afterwards reached the executor.
C39_Witness ==
    /\ pc[1] = "idle"
    /\ state.status = "failed"
    /\ Len(state.steps) = 1
    /\ state.steps[1].status = FAILED
    /\ state.steps[1].retry_count = max_retries
    /\ ctx.current_url = ""
    /\ page_url = ""
    /\ is_active(ctx, elapsed)
    /\ cont_calls # <<>>

\* C36: one run of the navigate handler loads the page at most twice and
\* restarts the session at most once; the restart and the second load happen
\* only when the text of the first error contains "closed", "target page" or
\* "context", any other first failure is returned as a failed ActionResult
\* after one load, and a failed restart or second load is returned as a
\* failed ActionResult and not raised.
Navigated == "run" \in DOMAIN executed

C36_OneRestart ==
    Navigated =>
        LET run == executed.run
            failed == run.gotos >= 1 /\ executed.first.raises
            lost == failed /\ SessionLost(executed.first.text)
        IN  /\ run.gotos <= 2
            /\ (run.gotos >= 1) <=> (Get(executed.params, "url", "") # "")
            /\ run.restarts <= 1
            /\ ~run.raised
            /\ (run.restarts = 1 \/ run.gotos = 2) => lost
            /\ (run.gotos = 2) => run.restarts = 1
            /\ (failed /\ ~lost) =>
                   /\ run.gotos = 1
                   /\ run.restarts = 0
                   /\ ~run.result.success
                   /\ run.result.error = "Navigation failed"
            /\ lost =>
                   /\ run.restarts = 1
                   /\ run.gotos = (IF executed.restart = "restarted" THEN 2 ELSE 1)
                   /\ (executed.restart # "restarted" \/ executed.second.raises) =>
                          /\ ~run.result.success
                          /\ run.result.error = "Browser restart failed"
                   /\ (executed.restart = "restarted" /\ ~executed.second.raises) =>
                          run.result.success

\* The first load raised "Execution Context destroyed", the session was
\* started again and the second load raised too.
C36_Witness ==
    /\ Navigated
    /\ executed.first = Raises(<<"Execution", " ", "Context", " ", "destroyed">>)
    /\ executed.restart = "restarted"
    /\ executed.second.raises
    /\ executed.run.gotos = 2
    /\ executed.run.result.error = "Browser restart failed"

\* The thread other than p, and whether thread p is inside execute_goal, in
\* the step loop of execute(), or takes this step.
Other(p) == 3 - p
Inside(p) == pc[p] # "idle"
InStepLoop(p) == pc[p] \in {"start", "exec", "retry", "failed"}
StepOf(p) == pc'[p] # pc[p]

\* The singleton AgentState holds the execution of thread p and nothing else:
\* its goal, one record per step of its plan, its retries and its errors.
Own(p) ==
    /\ state.goal = goal_arg[p]
    /\ pc[p] = "planning" =>
           /\ state.steps = <<>>
           /\ state.total_steps = 0
           /\ state.errors = <<>>
           /\ state.total_retries = 0
    /\ pc[p] \notin {"idle", "planning"} =>
           /\ Len(state.steps) = Len(plan[p])
           /\ state.total_steps = Len(plan[p])
           /\ \A k \in 1..Len(state.steps) :
                  /\ state.steps[k].step_index = k - 1
                  /\ state.steps[k].action = plan[p][k].action
                  /\ state.steps[k].params = plan[p][k].params
                  /\ state.steps[k].retry_count <= calls[p][k]
                  /\ calls[p][k] <= state.steps[k].retry_count + 1
                  /\ state.steps[k].status = PENDING => calls[p][k] = 0
                  /\ calls[p][k] = 0 => state.steps[k].status \in {PENDING, RUNNING}
                  /\ state.steps[k].status \in {FAILED, SKIPPED} =>
                         calls[p][k] = max_retries + 1
           /\ state.total_retries = SumRetries(state.steps)
           /\ Len(state.errors) = CountStatus(state, {FAILED, SKIPPED})
           /\ \A i \in 1..Len(state.errors) :
                  LET k == state.errors[i][1] + 1
                  IN  /\ k <= Len(state.steps)
                      /\ state.steps[k].status \in {FAILED, SKIPPED}
                      /\ state.errors[i][2] \in
                             {r.error : r \in DriverResults(driver, plan[p][k].action,
                                                            plan[p][k].params)}

\* The AgentResult of thread p reports the plan of thread p.
ReportsOwn(p) ==
    /\ result[p].goal = GoalOf(p)
    /\ result[p].steps_total = Len(plan[p])
    /\ result[p].steps_completed =
           Cardinality({k \in 1..Len(plan[p]) : calls[p][k] > 0
                                                 /\ plan[p][k].action # "navigate"})
    /\ Len(result[p].errors) =
           Cardinality({k \in 1..Len(plan[p]) : calls[p][k] = max_retries + 1})
    /\ \A i \in 1..Len(result[p].errors) :
           LET k == result[p].errors[i][1] + 1
           IN  /\ k <= Len(plan[p])
               /\ result[p].errors[i][2] \in
                      {r.error : r \in DriverResults(driver, plan[p][k].action,
                                                     plan[p][k].params)}

\* C40 as stated: when a second execute() call starts while a first one is in
\* its step loop, the first call's step records, counters and errors are not
\* altered by the second call, and each call's AgentResult reports
\* steps_total, steps_completed and errors of its own plan only.
C40_RunIsolation ==
    /\ [][\A p \in Procs :
            (InStepLoop(p) /\ StepOf(Other(p))) =>
                /\ state'.steps = state.steps
                /\ state'.total_steps = state.total_steps
                /\ state'.total_retries = state.total_retries
                /\ state'.errors = state.errors]_vars
    /\ [](\A p \in Procs : pc[p] = "returned" => ReportsOwn(p))

\* C40, amended: the isolation holds for calls that do not overlap.  A call
\* starts on an AgentState that holds its execution alone; while the other
\* thread stays outside execute(), every step of the call keeps it so, and
\* the AgentResult reports steps_total, steps_completed and errors of the
\* call's own plan.
C40_SerialIsolation ==
    /\ [][\A p \in Procs : (pc[p] = "idle" /\ pc'[p] = "planning") => Own(p)']_vars
    /\ [][\A p \in Procs :
            (/\ Own(p) /\ Inside(p) /\ Inside(p)'
             /\ ~Inside(Other(p)) /\ ~Inside(Other(p))') =>
                /\ Own(p)'
                /\ (pc'[p] = "returned") => ReportsOwn(p)']_vars

\* The second thread's call ran and returned, with a skipped step and an
\* error; the first thread's call then ran alone and returned a result for
\* its own two steps.
C40_Witness ==
    /\ pc = <<"returned", "idle">>
    /\ Len(history) = 1
    /\ history[1].goal = "g2"
    /\ history[1].errors # <<>>
    /\ Own(1)
    /\ ReportsOwn(1)
    /\ result[1].steps_total = 2
    /\ result[1].steps_completed = 1
    /\ Len(result[1].errors) = 1

====
